---- MODULE Spec2Model ----
(***************************************************************************)
(* CredVault credential lifecycle: identity store, session, credential     *)
(* ledger and request state machine (client/lib/auth.ts, seed-data.ts and  *)
(* the AuthProvider context).                                              *)
(*                                                                         *)
(* JavaScript strings that the code inspects (emails, wallet addresses)    *)
(* are sequences of one-character strings; strings the code only copies    *)
(* or compares for equality (names, titles, ids, messages) are TLA+        *)
(* strings.  A value of type "T | null" is <<>> (null) or <<t>>.           *)
(* JavaScript objects are functions from field names to values, so that    *)
(* object spread is function override.                                     *)
(***************************************************************************)
EXTENDS Integers, Sequences, FiniteSets, TLC

(* ----------------------------- bounds ---------------------------------- *)
\* number of values the clock (Date.now) takes before the model stops creating records
MaxClock == 3
\* longest text drawn from IdAlphabet for the credential id field
MaxTextLen == 2
\* longest text handed to sanitizeUrlForDisplay
MaxUrlLen == 8

(* ------------------------- program constants --------------------------- *)
HexMaxDigits == 64
MinWalletLen == 6
MaxWalletLen == 100

(* --------------------------- string helpers ---------------------------- *)
UpperChars ==
    <<"A", "B", "C", "D", "E", "F", "G", "H", "I", "J", "K", "L", "M",
      "N", "O", "P", "Q", "R", "S", "T", "U", "V", "W", "X", "Y", "Z">>
LowerChars ==
    <<"a", "b", "c", "d", "e", "f", "g", "h", "i", "j", "k", "l", "m",
      "n", "o", "p", "q", "r", "s", "t", "u", "v", "w", "x", "y", "z">>
Digits == {"0", "1", "2", "3", "4", "5", "6", "7", "8", "9"}
Whitespace == {" ", "\t", "\n"}
Range(s) == {s[i] : i \in 1..Len(s)}
Letters == Range(UpperChars) \cup Range(LowerChars)
HexChars == Digits \cup {"a", "b", "c", "d", "e", "f", "A", "B", "C", "D", "E", "F"}
NameChars == Letters \cup Digits \cup {"_", "-"}

\* String.prototype.toLowerCase on one character
LowerOf == [c \in Range(UpperChars) |->
               LowerChars[CHOOSE i \in 1..Len(UpperChars) : UpperChars[i] = c]]
toLowerChar(c) == IF c \in DOMAIN LowerOf THEN LowerOf[c] ELSE c
\* String.prototype.toLowerCase
toLowerCase(s) == [i \in 1..Len(s) |-> toLowerChar(s[i])]

\* String.prototype.trim
trim(s) ==
    IF \A i \in 1..Len(s) : s[i] \in Whitespace THEN <<>>
    ELSE LET lo == CHOOSE i \in 1..Len(s) :
                       s[i] \notin Whitespace /\ \A j \in 1..(i - 1) : s[j] \in Whitespace
             hi == CHOOSE i \in 1..Len(s) :
                       s[i] \notin Whitespace /\ \A j \in (i + 1)..Len(s) : s[j] \in Whitespace
         IN  SubSeq(s, lo, hi)
\* String.prototype.startsWith
startsWith(s, p) == Len(s) >= Len(p) /\ SubSeq(s, 1, Len(p)) = p
\* String.prototype.includes
includes(s, p) ==
    \E i \in 1..(Len(s) + 1) :
        i + Len(p) - 1 <= Len(s) /\ SubSeq(s, i, i + Len(p) - 1) = p

dotApt == <<".", "a", "p", "t">>
zeroX == <<"0", "x">>

\* /^[^\s@]+@[^\s@]+\.[^\s@]+$/.test(email)
isValidEmail(email) ==
    LET ats == {k \in 1..Len(email) : email[k] = "@"}
    IN  /\ \A k \in 1..Len(email) : email[k] \notin Whitespace
        /\ Cardinality(ats) = 1
        /\ \A i \in ats :
              /\ 1 < i
              /\ \E j \in (i + 2)..(Len(email) - 1) : email[j] = "."

\* /^0x[a-fA-F0-9]{1,64}$/.test(t)
matchesHexAddress(t) ==
    /\ startsWith(t, zeroX)
    /\ Len(t) - 2 >= 1 /\ Len(t) - 2 <= HexMaxDigits
    /\ \A k \in 3..Len(t) : t[k] \in HexChars
\* /^[a-zA-Z0-9_-]+\.apt$/.test(t)
matchesNamedAddress(t) ==
    /\ Len(t) >= 5
    /\ SubSeq(t, Len(t) - 3, Len(t)) = dotApt
    /\ \A k \in 1..(Len(t) - 4) : t[k] \in NameChars

\* isValidWallet(address)
isValidWallet(address) ==
    IF Len(address) = 0 THEN FALSE
    ELSE LET trimmed == trim(address)
         IN  IF startsWith(trimmed, zeroX) THEN matchesHexAddress(trimmed)
             ELSE IF includes(trimmed, dotApt) THEN matchesNamedAddress(trimmed)
             ELSE Len(trimmed) >= MinWalletLen /\ Len(trimmed) <= MaxWalletLen

(* ------------------------------ values --------------------------------- *)
\* JavaScript undefined as the value of an optional object field
Undefined == "undefined"
OptionalFields == {"organization", "institution", "rejectionNote"}
None == <<>>
Some(x) == <<x>>

\* { ...a, ...b }
Spread(a, b) ==
    [f \in (DOMAIN a) \cup (DOMAIN b) |-> IF f \in DOMAIN b THEN b[f] ELSE a[f]]

\* JSON.stringify of an object: fields whose value is undefined are left out
stringifyObject(o) ==
    [f \in {g \in DOMAIN o : ~(g \in OptionalFields /\ o[g] = Undefined)} |-> o[f]]
\* JSON.stringify of an array of objects, as stored text
stringifyList(l) == [text |-> "json", value |-> [i \in 1..Len(l) |-> stringifyObject(l[i])]]
stringifyProfile(o) == [text |-> "json", value |-> stringifyObject(o)]

(* ------------------------------ the store ------------------------------ *)
USER_PROFILE_KEY == "credvault_user_profile"
ISSUED_CREDENTIALS_KEY == "credvault_issued_credentials"
REGISTERED_USERS_KEY == "credvault_registered_users"
CREDENTIAL_REQUESTS_KEY == "credvault_credential_requests"
StoreKeys ==
    {USER_PROFILE_KEY, ISSUED_CREDENTIALS_KEY, REGISTERED_USERS_KEY, CREDENTIAL_REQUESTS_KEY}

VARIABLES
    localStorage,   \* the browser's durable store: key -> <<>> (no item) or <<stored text>>
    user,           \* AuthProvider's React state: <<>> or <<profile>>
    clock,          \* the value the next Date.now() returns
    last,           \* the last call made: its name, arguments, return value, error
    form,           \* URLTestComponent's React state: the two inputs, the URL, the error
    location,       \* window.location.href of the page opened last
    clip,           \* the copyToClipboard call in progress and what it did to the page
    tabs            \* each tab's ledger call in progress: its position and its locals

vars == <<localStorage, user, clock, last, form, location, clip, tabs>>

\* localStorage.setItem(key, text)
setItem(ls, key, text) == [ls EXCEPT ![key] = Some(text)]
\* localStorage.removeItem(key)
removeItem(ls, key) == [ls EXCEPT ![key] = None]

\* Texts a writer other than this program (another script of the origin, an older
\* version, the user) can leave under a key: a text JSON.parse rejects, and the JSON
\* text of an object that is neither a profile nor a list.
UnparsableText == [text |-> "{oops"]
ObjectText == [text |-> "{}"]
ForeignTexts == {UnparsableText, ObjectText}

\* the value JSON.parse gives for a text it accepts; the object of ObjectText has no
\* field of a profile and no method of an array, and is known by its type only
JsNull == [typeof |-> "null"]
JSONparse(item) ==
    IF item.text = "json" THEN item.value ELSE [typeof |-> "object"]

\* try { stored = getItem(key); return stored ? JSON.parse(stored) : absent }
\* catch { return absent }
readStored(ls, key, absent) ==
    IF ls[key] = None THEN absent
    ELSE IF ls[key][1].text = "" THEN absent
    ELSE IF ls[key][1].text = "{oops" THEN absent
    ELSE JSONparse(ls[key][1])

\* whether the value read under a list key is an array (Array.isArray of the read)
readsArray(ls, key) ==
    \/ ls[key] = None
    \/ ls[key][1].text \in {"", "{oops", "json"}

\* the error of calling an array method on a value that has none
TypeError == "TypeError"

\* saveUserProfile(profile)
saveUserProfile(ls, profile) == setItem(ls, USER_PROFILE_KEY, stringifyProfile(profile))

\* getCurrentUser()
getCurrentUser(ls) ==
    LET parsed == readStored(ls, USER_PROFILE_KEY, JsNull)
    IN  IF parsed = JsNull THEN None ELSE Some(parsed)

logoutAndForget(ls) == [k \in DOMAIN ls |-> None]
\* logout()
logout(ls) == removeItem(ls, USER_PROFILE_KEY)

\* getRegisteredUsers()
getRegisteredUsers(ls) == readStored(ls, REGISTERED_USERS_KEY, <<>>)

\* the first element of l that satisfies Test (Array.prototype.find), or null
Find(l, Test(_)) ==
    LET hits == {i \in 1..Len(l) : Test(l[i])}
    IN  IF hits = {} THEN None
        ELSE Some(l[CHOOSE i \in hits : \A j \in hits : i <= j])

\* saveToRegisteredUsers(user)
saveToRegisteredUsers(ls, u) ==
    LET users == getRegisteredUsers(ls)
        filteredUsers == SelectSeq(users, LAMBDA x : x.email # u.email)
    IN  setItem(ls, REGISTERED_USERS_KEY, stringifyList(Append(filteredUsers, u)))

findUserByEmailExact(ls, email) ==
    Find(getRegisteredUsers(ls), LAMBDA x : x.email = email)
\* findUserByEmail(email)
findUserByEmail(ls, email) ==
    Find(getRegisteredUsers(ls), LAMBDA x : toLowerCase(x.email) = toLowerCase(email))

\* findUserByEmailAndWallet(email, walletAddress)
findUserByEmailAndWallet(ls, email, walletAddress) ==
    Find(getRegisteredUsers(ls),
         LAMBDA x : /\ toLowerCase(x.email) = toLowerCase(email)
                    /\ x.walletAddress = walletAddress)

\* the optional field f of object o (undefined when the object has no such field)
Field(o, f) == IF f \in DOMAIN o THEN o[f] ELSE Undefined

\* the UserProfile literal the three sign-in functions build from a stored user
profileOf(u) ==
    [id |-> u.id, name |-> u.name, email |-> u.email,
     walletAddress |-> u.walletAddress, role |-> u.role,
     organization |-> Field(u, "organization"),
     institution |-> Field(u, "institution"),
     createdAt |-> u.createdAt]

\* the outcome of a call: the error it threw ("" when it returned), the value
\* it returned and the store it left
Outcome(err, ret, ls) == [err |-> err, ret |-> ret, ls |-> ls]

(* --------------------------- identity store ---------------------------- *)
\* generateUserId(): a value no earlier call returned
generateUserId(now) == "user_" \o ToString(now)
\* new Date().toISOString()
toISOString(now) == now

signInStudentAnyWallet(ls, data) ==
    IF ~isValidEmail(data.email) THEN Outcome("Invalid email format", None, ls)
    ELSE LET found == findUserByEmailAndWallet(ls, data.email, data.walletAddress)
         IN  IF found = None \/ found[1].role # "student" THEN Outcome("", None, ls)
             ELSE Outcome("", Some(profileOf(found[1])),
                          saveUserProfile(ls, profileOf(found[1])))
\* signInStudent(data)
signInStudent(ls, data) ==
    IF ~isValidEmail(data.email) THEN Outcome("Invalid email format", None, ls)
    ELSE IF ~isValidWallet(data.walletAddress)
    THEN Outcome("Invalid wallet address format", None, ls)
    ELSE IF ~readsArray(ls, REGISTERED_USERS_KEY) THEN Outcome(TypeError, None, ls)
    ELSE LET found == findUserByEmailAndWallet(ls, data.email, data.walletAddress)
         IN  IF found = None \/ found[1].role # "student" THEN Outcome("", None, ls)
             ELSE Outcome("", Some(profileOf(found[1])),
                          saveUserProfile(ls, profileOf(found[1])))

\* signInStaff(data)
signInStaff(ls, data) ==
    IF ~isValidEmail(data.email) THEN Outcome("Invalid email format", None, ls)
    ELSE IF ~readsArray(ls, REGISTERED_USERS_KEY) THEN Outcome(TypeError, None, ls)
    ELSE LET found == findUserByEmail(ls, data.email)
         IN  IF found = None \/ found[1].role # "staff" THEN Outcome("", None, ls)
             ELSE Outcome("", Some(profileOf(found[1])),
                          saveUserProfile(ls, profileOf(found[1])))

\* signInIssuer(data)
signInIssuer(ls, data) ==
    IF ~isValidEmail(data.email) THEN Outcome("Invalid email format", None, ls)
    ELSE IF ~readsArray(ls, REGISTERED_USERS_KEY) THEN Outcome(TypeError, None, ls)
    ELSE LET found == findUserByEmail(ls, data.email)
         IN  IF found = None \/ found[1].role # "issuer" THEN Outcome("", None, ls)
             ELSE Outcome("", Some(profileOf(found[1])),
                          saveUserProfile(ls, profileOf(found[1])))

DuplicateUser == "User with this email already exists"

registerStudentAndSignIn(ls, data, now) ==
    IF findUserByEmail(ls, data.email) # None THEN Outcome(DuplicateUser, None, ls)
    ELSE LET profile ==
                 [id |-> generateUserId(now), name |-> data.name, email |-> data.email,
                  walletAddress |-> data.walletAddress, role |-> "student",
                  createdAt |-> toISOString(now)]
         IN  Outcome("", Some(profile),
                     saveUserProfile(saveToRegisteredUsers(ls, profile), profile))
\* registerStudent(data)
registerStudent(ls, data, now) ==
    IF ~readsArray(ls, REGISTERED_USERS_KEY) THEN Outcome(TypeError, None, ls)
    ELSE IF findUserByEmail(ls, data.email) # None THEN Outcome(DuplicateUser, None, ls)
    ELSE LET profile ==
                 [id |-> generateUserId(now), name |-> data.name, email |-> data.email,
                  walletAddress |-> data.walletAddress, role |-> "student",
                  createdAt |-> toISOString(now)]
             storedUser ==
                 [id |-> profile.id, name |-> profile.name, email |-> profile.email,
                  walletAddress |-> profile.walletAddress, role |-> profile.role,
                  createdAt |-> profile.createdAt]
         IN  Outcome("", Some(profile), saveToRegisteredUsers(ls, storedUser))

\* registerStaff(data)
registerStaff(ls, data, now) ==
    IF ~readsArray(ls, REGISTERED_USERS_KEY) THEN Outcome(TypeError, None, ls)
    ELSE IF findUserByEmail(ls, data.email) # None THEN Outcome(DuplicateUser, None, ls)
    ELSE LET profile ==
                 [id |-> generateUserId(now), name |-> data.name, email |-> data.email,
                  walletAddress |-> data.walletAddress, role |-> "staff",
                  organization |-> data.organization,
                  createdAt |-> toISOString(now)]
             storedUser ==
                 [id |-> profile.id, name |-> profile.name, email |-> profile.email,
                  walletAddress |-> profile.walletAddress, role |-> profile.role,
                  organization |-> profile.organization,
                  createdAt |-> profile.createdAt]
         IN  Outcome("", Some(profile), saveToRegisteredUsers(ls, storedUser))

\* registerIssuer(data)
registerIssuer(ls, data, now) ==
    IF ~readsArray(ls, REGISTERED_USERS_KEY) THEN Outcome(TypeError, None, ls)
    ELSE IF findUserByEmail(ls, data.email) # None THEN Outcome(DuplicateUser, None, ls)
    ELSE LET profile ==
                 [id |-> generateUserId(now), name |-> data.name, email |-> data.email,
                  walletAddress |-> data.walletAddress, role |-> "issuer",
                  institution |-> data.institution,
                  createdAt |-> toISOString(now)]
             storedUser ==
                 [id |-> profile.id, name |-> profile.name, email |-> profile.email,
                  walletAddress |-> profile.walletAddress, role |-> profile.role,
                  institution |-> profile.institution,
                  createdAt |-> profile.createdAt]
         IN  Outcome("", Some(profile), saveToRegisteredUsers(ls, storedUser))

(* ------------------------------ seed data ------------------------------ *)
seedStudentEmail ==
    <<"s", "t", "u", "d", "e", "n", "t", "@", "t", "e", "s", "t", ".", "c", "o", "m">>
seedStaffEmail ==
    <<"s", "t", "a", "f", "f", "@", "u", "n", "i", "v", "e", "r", "s", "i", "t", "y",
      ".", "e", "d", "u">>
seedIssuerEmail ==
    <<"i", "s", "s", "u", "e", "r", "@", "t", "e", "c", "h", "a", "c", "a", "d", "e",
      "m", "y", ".", "e", "d", "u">>
seedStudentWallet ==
    <<"0", "x", "1", "2", "3", "4", "5", "6", "7", "8", "9", "0", "a", "b", "c", "d",
      "e", "f", "1", "2", "3", "4", "5", "6", "7", "8", "9", "0", "a", "b", "c", "d",
      "e", "f", "1", "2", "3", "4", "5", "6", "7", "8">>
seedStaffWallet ==
    <<"0", "x", "a", "b", "c", "d", "e", "f", "1", "2", "3", "4", "5", "6", "7", "8",
      "9", "0", "a", "b", "c", "d", "e", "f", "1", "2", "3", "4", "5", "6", "7", "8",
      "9", "0", "a", "b", "c", "d", "e", "f", "1", "2">>
seedIssuerWallet ==
    <<"0", "x", "9", "8", "7", "6", "5", "4", "3", "2", "1", "0", "f", "e", "d", "c",
      "b", "a", "9", "8", "7", "6", "5", "4", "3", "2", "1", "0", "f", "e", "d", "c",
      "b", "a", "9", "8", "7", "6", "5", "4", "3", "2">>

\* the testUsers array of seedTestUsers
testUsers(now) ==
    << [id |-> "test_student_001", name |-> "Alex Student", email |-> seedStudentEmail,
        walletAddress |-> seedStudentWallet, role |-> "student",
        createdAt |-> toISOString(now)],
       [id |-> "test_staff_001", name |-> "Sarah Verifier", email |-> seedStaffEmail,
        walletAddress |-> seedStaffWallet, role |-> "staff",
        organization |-> "Tech University", createdAt |-> toISOString(now)],
       [id |-> "test_issuer_001", name |-> "Dr. Michael Issuer", email |-> seedIssuerEmail,
        walletAddress |-> seedIssuerWallet, role |-> "issuer",
        institution |-> "TechAcademy Institute", createdAt |-> toISOString(now)] >>

\* the body of the forEach in seedTestUsers
seedOne(existing, testUser) ==
    IF Find(existing, LAMBDA u : u.email = testUser.email) = None
    THEN Append(existing, testUser)
    ELSE existing

\* seedTestUsers()
seedTestUsers(ls, now) ==
    IF ~readsArray(ls, REGISTERED_USERS_KEY) THEN Outcome(TypeError, None, ls)
    ELSE LET existing == getRegisteredUsers(ls)
             t == testUsers(now)
             seeded == seedOne(seedOne(seedOne(existing, t[1]), t[2]), t[3])
         IN  Outcome("", None, setItem(ls, REGISTERED_USERS_KEY, stringifyList(seeded)))

(* ----------------------------- AuthProvider ---------------------------- *)
\* loadUserProfile, the effect AuthProvider runs when it mounts
loadUserProfile(ls) == getCurrentUser(ls)

\* login(profile)
login(profile) == Some(profile)

\* handleLogout(): the new store and the new React state
handleLogout(ls) == [ls |-> logout(ls), user |-> None]

updateProfileInMemory(ls, u, updates) ==
    IF u = None THEN [ls |-> ls, user |-> u]
    ELSE [ls |-> ls, user |-> Some(Spread(u[1], updates))]
\* updateProfile(updates): the new store and the new React state
updateProfile(ls, u, updates) ==
    IF u = None THEN [ls |-> ls, user |-> u]
    ELSE LET updatedProfile == Spread(u[1], updates)
         IN  [ls |-> setItem(ls, USER_PROFILE_KEY, stringifyProfile(updatedProfile)),
              user |-> Some(updatedProfile)]

(* --------------------------- credential ledger ------------------------- *)
\* getIssuedCredentials()
getIssuedCredentials(ls) == readStored(ls, ISSUED_CREDENTIALS_KEY, <<>>)

\* getCredentialRequests()
getCredentialRequests(ls) == readStored(ls, CREDENTIAL_REQUESTS_KEY, <<>>)

\* saveIssuedCredential(credential)
saveIssuedCredential(ls, credential, now) ==
    LET issuedCredential ==
            Spread(credential,
                   [id |-> "cred_" \o ToString(now),
                    issuedDate |-> toISOString(now),
                    status |-> "issued"])
        existing == getIssuedCredentials(ls)
    IN  IF ~readsArray(ls, ISSUED_CREDENTIALS_KEY) THEN Outcome(TypeError, None, ls)
        ELSE Outcome("", Some(issuedCredential),
                     setItem(ls, ISSUED_CREDENTIALS_KEY,
                             stringifyList(Append(existing, issuedCredential))))

\* getCredentialsByIssuer(issuerWalletAddress)
getCredentialsByIssuer(ls, issuerWalletAddress) ==
    IF ~readsArray(ls, ISSUED_CREDENTIALS_KEY) THEN Outcome(TypeError, None, ls)
    ELSE Outcome("",
                 Some(SelectSeq(getIssuedCredentials(ls),
                                LAMBDA cred : cred.issuerWalletAddress = issuerWalletAddress)),
                 ls)

getCredentialsForStudentIgnoringCase(ls, studentWalletAddress) ==
    Outcome("",
            Some(SelectSeq(getIssuedCredentials(ls),
                           LAMBDA cred : toLowerCase(cred.studentWalletAddress)
                                             = toLowerCase(studentWalletAddress))),
            ls)
\* getCredentialsForStudent(studentWalletAddress)
getCredentialsForStudent(ls, studentWalletAddress) ==
    IF ~readsArray(ls, ISSUED_CREDENTIALS_KEY) THEN Outcome(TypeError, None, ls)
    ELSE Outcome("",
                 Some(SelectSeq(getIssuedCredentials(ls),
                                LAMBDA cred : cred.studentWalletAddress = studentWalletAddress)),
                 ls)

submitCredentialRequestKeepingCallerFields(ls, request, now) ==
    LET newRequest ==
            Spread([id |-> "req_" \o ToString(now),
                    requestDate |-> toISOString(now),
                    status |-> "pending"],
                   request)
        existing == getCredentialRequests(ls)
    IN  Outcome("", Some(newRequest),
                setItem(ls, CREDENTIAL_REQUESTS_KEY,
                        stringifyList(Append(existing, newRequest))))
\* submitCredentialRequest(request)
submitCredentialRequest(ls, request, now) ==
    LET newRequest ==
            Spread(request,
                   [id |-> "req_" \o ToString(now),
                    requestDate |-> toISOString(now),
                    status |-> "pending"])
        existing == getCredentialRequests(ls)
    IN  IF ~readsArray(ls, CREDENTIAL_REQUESTS_KEY) THEN Outcome(TypeError, None, ls)
        ELSE Outcome("", Some(newRequest),
                     setItem(ls, CREDENTIAL_REQUESTS_KEY,
                             stringifyList(Append(existing, newRequest))))

\* getPendingRequestsForIssuer(issuerWalletAddress)
getPendingRequestsForIssuer(ls, issuerWalletAddress) ==
    IF ~readsArray(ls, CREDENTIAL_REQUESTS_KEY) THEN Outcome(TypeError, None, ls)
    ELSE Outcome("",
                 Some(SelectSeq(getCredentialRequests(ls),
                                LAMBDA req : /\ req.issuerWalletAddress = issuerWalletAddress
                                             /\ req.status = "pending")),
                 ls)

\* requests.findIndex((req) => req.id === requestId): 0 stands for -1
findIndex(requests, requestId) ==
    LET hits == {i \in 1..Len(requests) : requests[i].id = requestId}
    IN  IF hits = {} THEN 0 ELSE CHOOSE i \in hits : \A j \in hits : i <= j

RequestNotFound == "Request not found"
RequestNotPending == "Request is not pending"
DefaultRejectionNote == "Request was rejected"

approveCredentialRequestUsingMetadata(ls, requestId, metadata, now) ==
    LET requests == getCredentialRequests(ls)
        requestIndex == findIndex(requests, requestId)
    IN  IF requestIndex = 0 THEN Outcome(RequestNotFound, None, ls)
        ELSE LET request == requests[requestIndex]
             IN  IF request.status # "pending" THEN Outcome(RequestNotPending, None, ls)
                 ELSE LET updated ==
                              [requests EXCEPT ![requestIndex] =
                                  Spread(request, [status |-> "approved"])]
                          ls1 == setItem(ls, CREDENTIAL_REQUESTS_KEY, stringifyList(updated))
                          saved == saveIssuedCredential(ls1,
                                     [title |-> metadata.credentialType,
                                      description |-> request.description,
                                      studentWalletAddress |-> request.studentWalletAddress,
                                      issuerWalletAddress |-> request.issuerWalletAddress,
                                      issuerName |-> request.issuerName,
                                      issuerInstitution |-> request.issuerInstitution],
                                     now)
                      IN  Outcome("",
                                  Some([request |-> updated[requestIndex],
                                        credential |-> saved.ret[1]]),
                                  saved.ls)
approveCredentialRequestAnyStatus(ls, requestId, metadata, now) ==
    LET requests == getCredentialRequests(ls)
        requestIndex == findIndex(requests, requestId)
    IN  IF requestIndex = 0 THEN Outcome(RequestNotFound, None, ls)
        ELSE LET request == requests[requestIndex]
                 updated ==
                     [requests EXCEPT ![requestIndex] =
                         Spread(request, [status |-> "approved"])]
                 ls1 == setItem(ls, CREDENTIAL_REQUESTS_KEY, stringifyList(updated))
                 saved == saveIssuedCredential(ls1,
                            [title |-> request.credentialTitle,
                             description |-> request.description,
                             studentWalletAddress |-> request.studentWalletAddress,
                             issuerWalletAddress |-> request.issuerWalletAddress,
                             issuerName |-> request.issuerName,
                             issuerInstitution |-> request.issuerInstitution],
                            now)
             IN  Outcome("",
                         Some([request |-> updated[requestIndex],
                               credential |-> saved.ret[1]]),
                         saved.ls)
\* approveCredentialRequest(requestId, metadata)
approveCredentialRequest(ls, requestId, metadata, now) ==
    LET requests == getCredentialRequests(ls)
        requestIndex == findIndex(requests, requestId)
    IN  IF ~readsArray(ls, CREDENTIAL_REQUESTS_KEY) THEN Outcome(TypeError, None, ls)
        ELSE IF requestIndex = 0 THEN Outcome(RequestNotFound, None, ls)
        ELSE LET request == requests[requestIndex]
             IN  IF request.status # "pending" THEN Outcome(RequestNotPending, None, ls)
                 ELSE LET updated ==
                              [requests EXCEPT ![requestIndex] =
                                  Spread(request, [status |-> "approved"])]
                          ls1 == setItem(ls, CREDENTIAL_REQUESTS_KEY, stringifyList(updated))
                          saved == saveIssuedCredential(ls1,
                                     [title |-> request.credentialTitle,
                                      description |-> request.description,
                                      studentWalletAddress |-> request.studentWalletAddress,
                                      issuerWalletAddress |-> request.issuerWalletAddress,
                                      issuerName |-> request.issuerName,
                                      issuerInstitution |-> request.issuerInstitution],
                                     now)
                      IN  IF saved.err # "" THEN Outcome(saved.err, None, saved.ls)
                          ELSE Outcome("",
                                       Some([request |-> updated[requestIndex],
                                             credential |-> saved.ret[1]]),
                                       saved.ls)

\* what can end approveCredentialRequest between its two writes: the page is closed or
\* the process dies, or the setItem of saveIssuedCredential throws for lack of space
Stopped == "execution stopped"
QuotaExceededError == "QuotaExceededError"
FaultInputs == {Stopped, QuotaExceededError}

approveCredentialRequestFailingEarly(ls, requestId, metadata, fault) ==
    LET requests == getCredentialRequests(ls)
        requestIndex == findIndex(requests, requestId)
    IN  IF requestIndex = 0 THEN Outcome(RequestNotFound, None, ls)
        ELSE IF requests[requestIndex].status # "pending"
        THEN Outcome(RequestNotPending, None, ls)
        ELSE Outcome(fault, None, ls)
\* approveCredentialRequest(requestId, metadata) when the fault ends it after the
\* write of the requests and before the write of the credentials
approveCredentialRequestFailing(ls, requestId, metadata, fault) ==
    LET requests == getCredentialRequests(ls)
        requestIndex == findIndex(requests, requestId)
    IN  IF ~readsArray(ls, CREDENTIAL_REQUESTS_KEY) THEN Outcome(TypeError, None, ls)
        ELSE IF requestIndex = 0 THEN Outcome(RequestNotFound, None, ls)
        ELSE LET request == requests[requestIndex]
             IN  IF request.status # "pending" THEN Outcome(RequestNotPending, None, ls)
                 ELSE LET updated ==
                              [requests EXCEPT ![requestIndex] =
                                  Spread(request, [status |-> "approved"])]
                      IN  Outcome(fault, None,
                                  setItem(ls, CREDENTIAL_REQUESTS_KEY,
                                          stringifyList(updated)))

rejectCredentialRequestWritingFirst(ls, requestId, rejectionNote) ==
    LET requests == getCredentialRequests(ls)
        requestIndex == findIndex(requests, requestId)
    IN  IF requestIndex = 0
        THEN Outcome(RequestNotFound, None,
                     setItem(ls, CREDENTIAL_REQUESTS_KEY, stringifyList(<<>>)))
        ELSE LET request == requests[requestIndex]
                 note == IF rejectionNote = None \/ rejectionNote = Some("")
                         THEN DefaultRejectionNote ELSE rejectionNote[1]
                 updated ==
                     [requests EXCEPT ![requestIndex] =
                         Spread(request, [status |-> "rejected", rejectionNote |-> note])]
             IN  IF request.status # "pending"
                 THEN Outcome(RequestNotPending, None,
                              setItem(ls, CREDENTIAL_REQUESTS_KEY, stringifyList(updated)))
                 ELSE Outcome("", Some(updated[requestIndex]),
                              setItem(ls, CREDENTIAL_REQUESTS_KEY, stringifyList(updated)))
\* rejectCredentialRequest(requestId, rejectionNote): rejectionNote is <<>> when omitted
rejectCredentialRequest(ls, requestId, rejectionNote) ==
    LET requests == getCredentialRequests(ls)
        requestIndex == findIndex(requests, requestId)
    IN  IF ~readsArray(ls, CREDENTIAL_REQUESTS_KEY) THEN Outcome(TypeError, None, ls)
        ELSE IF requestIndex = 0 THEN Outcome(RequestNotFound, None, ls)
        ELSE LET request == requests[requestIndex]
             IN  IF request.status # "pending" THEN Outcome(RequestNotPending, None, ls)
                 ELSE LET note == IF rejectionNote = None \/ rejectionNote = Some("")
                                  THEN DefaultRejectionNote ELSE rejectionNote[1]
                          updated ==
                              [requests EXCEPT ![requestIndex] =
                                  Spread(request,
                                         [status |-> "rejected", rejectionNote |-> note])]
                      IN  Outcome("", Some(updated[requestIndex]),
                                  setItem(ls, CREDENTIAL_REQUESTS_KEY,
                                          stringifyList(updated)))

(* -------------------------- verification URLs -------------------------- *)
\* the printable ASCII characters in code order, from 0x20 to 0x7E ("grave" is the
\* character 0x60, which a string of this language cannot hold)
Printable ==
    <<" ", "!", "\"", "#", "$", "%", "&", "'", "(", ")", "*", "+", ",", "-", ".", "/",
      "0", "1", "2", "3", "4", "5", "6", "7", "8", "9", ":", ";", "<", "=", ">", "?",
      "@", "A", "B", "C", "D", "E", "F", "G", "H", "I", "J", "K", "L", "M", "N", "O",
      "P", "Q", "R", "S", "T", "U", "V", "W", "X", "Y", "Z", "[", "\\", "]", "^", "_",
      "grave", "a", "b", "c", "d", "e", "f", "g", "h", "i", "j", "k", "l", "m", "n", "o",
      "p", "q", "r", "s", "t", "u", "v", "w", "x", "y", "z", "{", "|", "}", "~">>
CodeOfPrintable ==
    [c \in Range(Printable) |-> 31 + CHOOSE i \in 1..Len(Printable) : Printable[i] = c]
\* the byte of a character
CodeOf(c) == IF c = "\t" THEN 9 ELSE IF c = "\n" THEN 10 ELSE CodeOfPrintable[c]
\* the character of a byte; a byte outside the table is one unnamed character
CharOf(n) ==
    IF n >= 32 /\ n <= 126 THEN Printable[n - 31]
    ELSE IF n = 9 THEN "\t" ELSE IF n = 10 THEN "\n" ELSE "\\uFFFD"
UpperHexDigits ==
    <<"0", "1", "2", "3", "4", "5", "6", "7", "8", "9", "A", "B", "C", "D", "E", "F">>
HexValue ==
    [c \in HexChars |->
        (CHOOSE i \in 1..16 : UpperHexDigits[i] = c \/ toLowerChar(UpperHexDigits[i]) = c) - 1]

\* the application/x-www-form-urlencoded serializer of URLSearchParams.toString():
\* letters, digits and * - . _ are kept, a space becomes +, any other byte %XX
FormUnreserved == Letters \cup Digits \cup {"*", "-", ".", "_"}
formEncodeChar(c) ==
    IF c \in FormUnreserved THEN <<c>>
    ELSE IF c = " " THEN <<"+">>
    ELSE <<"%", UpperHexDigits[(CodeOf(c) \div 16) + 1], UpperHexDigits[(CodeOf(c) % 16) + 1]>>
RECURSIVE formEncode(_)
formEncode(s) ==
    IF s = <<>> THEN <<>> ELSE formEncodeChar(Head(s)) \o formEncode(Tail(s))

\* the parser of new URLSearchParams(text): + is a space, %XX with two hex digits is
\* the byte XX, everything else stands for itself
RECURSIVE formDecode(_)
formDecode(s) ==
    IF s = <<>> THEN <<>>
    ELSE IF s[1] = "+" THEN <<" ">> \o formDecode(Tail(s))
    ELSE IF s[1] = "%" /\ Len(s) >= 3 /\ s[2] \in HexChars /\ s[3] \in HexChars
    THEN <<CharOf(16 * HexValue[s[2]] + HexValue[s[3]])>> \o formDecode(SubSeq(s, 4, Len(s)))
    ELSE <<s[1]>> \o formDecode(Tail(s))

\* s.split(sep) for a one-character separator
RECURSIVE split(_, _)
split(s, sep) ==
    IF sep \notin Range(s) THEN <<s>>
    ELSE LET i == CHOOSE k \in 1..Len(s) : s[k] = sep /\ \A j \in 1..(k - 1) : s[j] # sep
         IN  <<SubSeq(s, 1, i - 1)>> \o split(SubSeq(s, i + 1, Len(s)), sep)

pairOfUndecoded(piece) ==
    IF "=" \in Range(piece)
    THEN LET i == CHOOSE k \in 1..Len(piece) :
                      piece[k] = "=" /\ \A j \in 1..(k - 1) : piece[j] # "="
         IN  [name |-> SubSeq(piece, 1, i - 1), value |-> SubSeq(piece, i + 1, Len(piece))]
    ELSE [name |-> piece, value |-> <<>>]
\* the name and the value of one name=value piece of a query string
pairOf(piece) ==
    IF "=" \in Range(piece)
    THEN LET i == CHOOSE k \in 1..Len(piece) :
                      piece[k] = "=" /\ \A j \in 1..(k - 1) : piece[j] # "="
         IN  [name |-> formDecode(SubSeq(piece, 1, i - 1)),
              value |-> formDecode(SubSeq(piece, i + 1, Len(piece)))]
    ELSE [name |-> formDecode(piece), value |-> <<>>]

\* new URLSearchParams(search): the list of name/value pairs
URLSearchParams(search) ==
    LET text == IF startsWith(search, <<"?">>) THEN Tail(search) ELSE search
        pieces == SelectSeq(split(text, "&"), LAMBDA piece : piece # <<>>)
    IN  [i \in 1..Len(pieces) |-> pairOf(pieces[i])]

\* urlParams.get(name) || undefined: the first value of that name when it is not
\* empty, <<>> (undefined) otherwise
getOrUndefined(params, name) ==
    LET hits == {i \in 1..Len(params) : params[i].name = name}
    IN  IF hits = {} THEN None
        ELSE LET v == params[CHOOSE i \in hits : \A j \in hits : i <= j].value
             IN  IF v = <<>> THEN None ELSE Some(v)

\* window.location.search of an address: from the first ? up to a #, empty when the
\* query is empty
searchOf(href) ==
    LET beforeHash ==
            IF "#" \in Range(href)
            THEN SubSeq(href, 1, (CHOOSE k \in 1..Len(href) :
                                     href[k] = "#" /\ \A j \in 1..(k - 1) : href[j] # "#") - 1)
            ELSE href
    IN  IF "?" \notin Range(beforeHash) THEN <<>>
        ELSE LET q == CHOOSE k \in 1..Len(beforeHash) :
                          beforeHash[k] = "?" /\ \A j \in 1..(k - 1) : beforeHash[j] # "?"
             IN  IF q = Len(beforeHash) THEN <<>> ELSE SubSeq(beforeHash, q, Len(beforeHash))

addressName ==
    <<"a", "d", "d", "r", "e", "s", "s">>
credentialIdName ==
    <<"c", "r", "e", "d", "e", "n", "t", "i", "a", "l", "I", "d">>
typeName ==
    <<"t", "y", "p", "e">>
issuerName ==
    <<"i", "s", "s", "u", "e", "r">>

\* parseUrlParams(), reading window.location.search
parseUrlParams(href) ==
    LET urlParams == URLSearchParams(searchOf(href))
    IN  [address |-> getOrUndefined(urlParams, addressName),
         credentialId |-> getOrUndefined(urlParams, credentialIdName),
         type |-> getOrUndefined(urlParams, typeName),
         issuer |-> getOrUndefined(urlParams, issuerName)]

isValidWalletAddressByLengthFirst(address) ==
    IF Len(address) = 0 THEN FALSE
    ELSE LET trimmed == trim(address)
         IN  IF Len(trimmed) >= MinWalletLen /\ Len(trimmed) <= MaxWalletLen THEN TRUE
             ELSE IF startsWith(trimmed, zeroX)
             THEN /\ Len(trimmed) >= 3
                  /\ \A k \in 3..Len(trimmed) : trimmed[k] \in HexChars
             ELSE /\ Len(trimmed) >= 5
                  /\ SubSeq(trimmed, Len(trimmed) - 3, Len(trimmed)) = dotApt
                  /\ \A k \in 1..(Len(trimmed) - 4) : trimmed[k] \in NameChars
\* isValidWalletAddress(address)
isValidWalletAddress(address) ==
    IF Len(address) = 0 THEN FALSE
    ELSE LET trimmed == trim(address)
         IN  IF startsWith(trimmed, zeroX)
             THEN /\ Len(trimmed) >= 3 /\ Len(trimmed) <= 2 + HexMaxDigits
                  /\ \A k \in 3..Len(trimmed) : trimmed[k] \in HexChars
             ELSE IF includes(trimmed, dotApt)
             THEN /\ Len(trimmed) >= 5
                  /\ SubSeq(trimmed, Len(trimmed) - 3, Len(trimmed)) = dotApt
                  /\ \A k \in 1..(Len(trimmed) - 4) : trimmed[k] \in NameChars
             ELSE Len(trimmed) >= MinWalletLen /\ Len(trimmed) <= MaxWalletLen

MaxCredentialIdLen == 100
\* isValidCredentialId(id)
isValidCredentialId(id) ==
    IF Len(id) = 0 THEN FALSE
    ELSE Len(trim(id)) > 0 /\ Len(trim(id)) <= MaxCredentialIdLen

\* the result of a call that touches no store: the error it threw ("" when it
\* returned) and the value it returned
Result(err, ret) == [err |-> err, ret |-> ret]

MissingAddressAndId == "Wallet address and credential ID are required"
MissingAddress == "Wallet address is required"
InvalidWalletAddress == "Invalid wallet address format"
verifyPath ==
    <<"/", "v", "e", "r", "i", "f", "y", "?">>

\* new URLSearchParams({...}).toString() for the listed name/value pairs
RECURSIVE serializeParams(_)
serializeParams(pairs) ==
    IF pairs = <<>> THEN <<>>
    ELSE formEncode(pairs[1].name) \o <<"=">> \o formEncode(pairs[1].value)
             \o (IF Len(pairs) > 1 THEN <<"&">> ELSE <<>>) \o serializeParams(Tail(pairs))

generateVerificationUrlUnencoded(walletAddress, credentialId, baseUrl, windowOrigin) ==
    IF Len(walletAddress) = 0 \/ Len(credentialId) = 0 THEN Result(MissingAddressAndId, None)
    ELSE IF ~isValidWalletAddress(trim(walletAddress)) THEN Result(InvalidWalletAddress, None)
    ELSE Result("", Some((IF baseUrl = None \/ baseUrl = Some(<<>>)
                          THEN windowOrigin ELSE baseUrl[1])
                         \o verifyPath \o addressName \o <<"=">> \o trim(walletAddress)
                         \o <<"&">> \o credentialIdName \o <<"=">> \o trim(credentialId)))
\* generateVerificationUrl(walletAddress, credentialId, baseUrl): baseUrl is <<>> when
\* omitted
generateVerificationUrl(walletAddress, credentialId, baseUrl, windowOrigin) ==
    IF Len(walletAddress) = 0 \/ Len(credentialId) = 0 THEN Result(MissingAddressAndId, None)
    ELSE LET cleanAddress == trim(walletAddress)
             cleanCredentialId == trim(credentialId)
         IN  IF ~isValidWalletAddress(cleanAddress) THEN Result(InvalidWalletAddress, None)
             ELSE LET origin == IF baseUrl = None \/ baseUrl = Some(<<>>)
                                THEN windowOrigin ELSE baseUrl[1]
                      params == <<[name |-> addressName, value |-> cleanAddress],
                                  [name |-> credentialIdName, value |-> cleanCredentialId]>>
                  IN  Result("", Some(origin \o verifyPath \o serializeParams(params)))

generateProfileUrlValidatingFirst(walletAddress, baseUrl, windowOrigin) ==
    IF ~isValidWalletAddress(trim(walletAddress)) THEN Result(InvalidWalletAddress, None)
    ELSE IF Len(walletAddress) = 0 THEN Result(MissingAddress, None)
    ELSE Result("", Some((IF baseUrl = None \/ baseUrl = Some(<<>>)
                          THEN windowOrigin ELSE baseUrl[1])
                         \o verifyPath
                         \o serializeParams(<<[name |-> addressName,
                                               value |-> trim(walletAddress)]>>)))
\* generateProfileUrl(walletAddress, baseUrl)
generateProfileUrl(walletAddress, baseUrl, windowOrigin) ==
    IF Len(walletAddress) = 0 THEN Result(MissingAddress, None)
    ELSE LET cleanAddress == trim(walletAddress)
         IN  IF ~isValidWalletAddress(cleanAddress) THEN Result(InvalidWalletAddress, None)
             ELSE LET origin == IF baseUrl = None \/ baseUrl = Some(<<>>)
                                THEN windowOrigin ELSE baseUrl[1]
                      params == <<[name |-> addressName, value |-> cleanAddress]>>
                  IN  Result("", Some(origin \o verifyPath \o serializeParams(params)))

\* generateQRVerificationData(credential, walletAddress, baseUrl)
generateQRVerificationData(credential, walletAddress, baseUrl, windowOrigin, now) ==
    LET url == generateVerificationUrl(walletAddress, credential.id, baseUrl, windowOrigin)
    IN  IF url.err # "" THEN Result(url.err, None)
        ELSE Result("", Some([url |-> url.ret[1],
                              data |-> [credentialId |-> credential.id,
                                        walletAddress |-> walletAddress,
                                        issuer |-> credential.issuer,
                                        title |-> credential.title,
                                        type |-> credential.type,
                                        issuedDate |-> credential.date,
                                        timestamp |-> now]]))

\* createShareableUrl(credential, walletAddress); the text is made of the three parts
\* the template joins
createShareableUrl(credential, walletAddress, windowOrigin) ==
    LET url == generateVerificationUrl(walletAddress, credential.id, None, windowOrigin)
    IN  IF url.err # "" THEN Result(url.err, None)
        ELSE Result("", Some([url |-> url.ret[1],
                              title |-> <<credential.title, " - CredVault">>,
                              text |-> <<credential.type, credential.title,
                                         credential.issuer>>]))

\* ToIntegerOrInfinity(twice / 2): the half of an integer, rounded towards zero
truncHalf(twice) == IF twice >= 0 THEN twice \div 2 ELSE 0 - ((0 - twice) \div 2)
clamp(n, len) == IF n < 0 THEN 0 ELSE IF n > len THEN len ELSE n
\* s.substring(start, end), the arguments already integers
substring(s, start, end) ==
    LET a == clamp(start, Len(s))
        b == clamp(end, Len(s))
    IN  IF a <= b THEN SubSeq(s, a + 1, b) ELSE SubSeq(s, b + 1, a)
ellipsis == <<".", ".", ".">>

sanitizeUrlForDisplayKeepingHalves(url, maxLength) ==
    IF Len(url) <= maxLength THEN url
    ELSE substring(url, 0, maxLength \div 2) \o ellipsis
             \o substring(url, Len(url) - (maxLength \div 2), Len(url))
\* sanitizeUrlForDisplay(url, maxLength)
sanitizeUrlForDisplay(url, maxLength) ==
    IF Len(url) <= maxLength THEN url
    ELSE LET start == substring(url, 0, truncHalf(maxLength))
             end == substring(url, truncHalf(2 * Len(url) - maxLength), Len(url))
         IN  start \o ellipsis \o end

(* ------------------------------ clipboard ------------------------------ *)
\* The browser a copyToClipboard call runs in, as far as the call can tell:
\*   clipboardApi  navigator.clipboard && window.isSecureContext
\*   writeText     whether navigator.clipboard.writeText resolves or rejects
\*   body          whether document.body is there, or appendChild on it throws
\*   select        whether select() / setSelectionRange() return or throw
\*   execCommand   whether document.execCommand is a function
\*   execTextArea  document.execCommand("copy") with the text area selected
\*   execInput     document.execCommand("copy") with the input selected
\*   alert         whether alert(...) returns or throws
\*   prompt        whether window.prompt is there, and returns or throws
Browsers ==
    { env \in [clipboardApi : BOOLEAN, writeText : {"resolves", "rejects"},
               body : {"present", "null"}, select : {"returns", "throws"},
               execCommand : {"present", "missing"},
               execTextArea : {"true", "false", "throws"},
               execInput : {"true", "false", "throws"},
               alert : {"returns", "throws"},
               prompt : {"returns", "missing", "throws"}] :
        /\ env.execCommand = "missing" => env.execTextArea = "throws" /\ env.execInput = "throws"
        /\ ~env.clipboardApi => env.writeText = "rejects" }

\* a ClipboardResult; a field the object literal leaves out is undefined
ClipboardResult(success, method, error) ==
    [success |-> success, method |-> method, error |-> error]

\* what a stage leaves behind: how its promise or call settled, the result it gave,
\* the elements attached to document.body, and what the user has been shown
Stage(settled, result, attached, shown) ==
    [settled |-> settled, result |-> result, attached |-> attached, shown |-> shown]

SelectedTextArea == "text area selected, with the instruction to press Ctrl+C"
PromptWithText == "prompt 'Copy this text (Ctrl+C / Cmd+C):' holding the text"
AlertWithText == "alert 'Please copy this text manually:' followed by the text"

\* navigator.clipboard.writeText(text), awaited inside the try of stage 1
writeText(env, attached, shown) ==
    IF env.writeText = "resolves"
    THEN Stage("resolved", Some(ClipboardResult(TRUE, "clipboard-api", Undefined)),
               attached, shown)
    ELSE Stage("rejected", None, attached, shown)

\* copyWithExecCommand(text)
copyWithExecCommand(env, attached, shown) ==
    IF env.body = "null" THEN Stage("rejected", None, attached, shown)
    ELSE LET appended == attached \cup {"textArea"}
             removed == appended \ {"textArea"}
         IN  IF env.select = "throws" \/ env.execCommand = "missing"
                    \/ env.execTextArea = "throws"
             THEN Stage("resolved",
                        Some(ClipboardResult(FALSE, Undefined, "execCommand threw error")),
                        removed, shown)
             ELSE IF env.execTextArea = "true"
             THEN Stage("resolved", Some(ClipboardResult(TRUE, "execCommand", Undefined)),
                        removed, shown)
             ELSE Stage("resolved",
                        Some(ClipboardResult(FALSE, Undefined, "execCommand returned false")),
                        removed, shown)

\* copyWithTextSelection(text)
copyWithTextSelection(env, attached, shown) ==
    IF env.body = "null" THEN Stage("rejected", None, attached, shown)
    ELSE LET appended == attached \cup {"input"}
             removed == appended \ {"input"}
         IN  IF env.select = "throws"
             THEN Stage("resolved",
                        Some(ClipboardResult(FALSE, Undefined, "Manual selection threw error")),
                        removed, shown)
             ELSE IF env.execCommand = "missing"
             THEN Stage("resolved",
                        Some(ClipboardResult(FALSE, Undefined, "execCommand not available")),
                        removed, shown)
             ELSE IF env.execInput = "throws"
             THEN Stage("resolved",
                        Some(ClipboardResult(FALSE, Undefined, "Manual selection threw error")),
                        removed, shown)
             ELSE IF env.execInput = "true"
             THEN Stage("resolved", Some(ClipboardResult(TRUE, "manual-select", Undefined)),
                        removed, shown)
             ELSE Stage("resolved",
                        Some(ClipboardResult(FALSE, Undefined, "Manual selection copy failed")),
                        removed, shown)

manualCopyCatchReportingSuccess(env, attached, shown) ==
    IF env.prompt = "returns"
    THEN Stage("returned", Some(ClipboardResult(TRUE, "fallback", Undefined)),
               attached, shown \cup {PromptWithText})
    ELSE IF env.prompt = "throws" THEN Stage("threw", None, attached, shown)
    ELSE IF env.alert = "returns"
    THEN Stage("returned", Some(ClipboardResult(TRUE, "fallback", Undefined)),
               attached, shown \cup {AlertWithText})
    ELSE Stage("threw", None, attached, shown)
\* the catch block of showManualCopyFallback, entered with the page as the try block
\* left it
manualCopyCatch(env, attached, shown) ==
    IF env.prompt = "returns"
    THEN Stage("returned", Some(ClipboardResult(TRUE, "fallback", Undefined)),
               attached, shown \cup {PromptWithText})
    ELSE IF env.prompt = "throws" THEN Stage("threw", None, attached, shown)
    ELSE IF env.alert = "returns"
    THEN Stage("returned",
               Some(ClipboardResult(FALSE, Undefined, "All clipboard methods failed")),
               attached, shown \cup {AlertWithText})
    ELSE Stage("threw", None, attached, shown)

\* showManualCopyFallback(text)
showManualCopyFallback(env, attached, shown) ==
    IF env.body = "null" THEN manualCopyCatch(env, attached, shown)
    ELSE LET appended == attached \cup {"manualTextArea"}
         IN  IF env.select = "throws" \/ env.alert = "throws"
             THEN manualCopyCatch(env, appended, shown)
             ELSE Stage("returned", Some(ClipboardResult(TRUE, "fallback", Undefined)),
                        appended \ {"manualTextArea"}, shown \cup {SelectedTextArea})

copyToClipboardRetrying(stage, o) ==
    IF stage = "fallback" THEN "done"
    ELSE IF stage = "clipboard-api" THEN "execCommand"
    ELSE IF stage = "execCommand" THEN "manual-select"
    ELSE "fallback"
\* copyToClipboard's control flow: where it goes after a stage left o behind
copyToClipboard(stage, o) ==
    IF stage = "fallback" THEN "done"
    ELSE IF o.settled = "resolved" /\ o.result[1].success THEN "done"
    ELSE IF stage = "clipboard-api" THEN "execCommand"
    ELSE IF stage = "execCommand" THEN "manual-select"
    ELSE "fallback"

\* no call in progress
idleClip ==
    [pc |-> "idle", env |-> None, attempts |-> <<>>, attached |-> {}, shown |-> {},
     settled |-> "", result |-> None]

(* ------------------------------- inputs -------------------------------- *)
mixedCaseStudentEmail ==
    <<"S", "t", "u", "d", "e", "n", "t", "@", "T", "e", "s", "t", ".", "c", "o", "m">>
malformedEmail == <<"b", "a", "d">>
shortHexWallet == <<"0", "x", "A", "B", "1", "2">>
malformedHexWallet == <<"0", "x", "Z", "Z">>
namedWallet == <<"a", "l", "i", "c", "e", ".", "a", "p", "t">>

\* the form data handed to registerStudent / registerStaff / registerIssuer
RegistrationInputs ==
    { [name |-> "Alex", email |-> mixedCaseStudentEmail, walletAddress |-> seedStudentWallet,
       organization |-> "Org", institution |-> "Inst"],
      [name |-> "Bo", email |-> seedStudentEmail, walletAddress |-> shortHexWallet,
       organization |-> "Org", institution |-> "Inst"],
      [name |-> "Cy", email |-> malformedEmail, walletAddress |-> namedWallet,
       organization |-> "Org", institution |-> "Inst"] }

EmailInputs == {seedStudentEmail, malformedEmail}
WalletInputs == {seedStudentWallet, shortHexWallet, malformedHexWallet}

StudentSignInInputs == [email : EmailInputs, walletAddress : WalletInputs]
\* a StaffSignIn / IssuerSignIn object; at run time it may carry more fields
EmailSignInInputs ==
    [email : EmailInputs] \cup [email : {seedStudentEmail}, walletAddress : {seedStudentWallet}]

ProfileUpdateInputs == {[name |-> "Renamed"], [role |-> "issuer"]}

CredentialRequestInputs ==
    { [studentName |-> "Alex", studentEmail |-> seedStudentEmail,
       studentWalletAddress |-> seedStudentWallet,
       issuerWalletAddress |-> seedIssuerWallet, issuerName |-> "Dr. Michael Issuer",
       issuerInstitution |-> "Dr. Michael Issuer", credentialTitle |-> "BSc",
       description |-> "degree"],
      [studentName |-> "Bo", studentEmail |-> mixedCaseStudentEmail,
       studentWalletAddress |-> shortHexWallet,
       issuerWalletAddress |-> namedWallet, issuerName |-> "Cy",
       issuerInstitution |-> "Cy", credentialTitle |-> "Badge",
       description |-> "",
       id |-> "req_mine", requestDate |-> 0, status |-> "approved",
       rejectionNote |-> "left by the caller"] }

CredentialInputs ==
    { [title |-> "Minted", description |-> "by hand",
       studentWalletAddress |-> shortHexWallet, issuerWalletAddress |-> seedIssuerWallet,
       issuerName |-> "Dr. Michael Issuer", issuerInstitution |-> "Unknown Institution",
       id |-> "cred_mine", issuedDate |-> 0, status |-> "revoked"] }

MetadataInputs ==
    { [credentialType |-> "Certificate", eventLink |-> "", issueDate |-> "",
       additionalMetadata |-> ""],
      [credentialType |-> "Diploma", eventLink |-> "http://e", issueDate |-> "2024-01-01",
       additionalMetadata |-> "{}"] }

RejectionNoteInputs == {None, Some(""), Some("Request was rejected by the issuer")}

\* wallet addresses a dashboard or the verification page queries the ledger with
WalletQueryInputs == {seedIssuerWallet, shortHexWallet, toLowerCase(shortHexWallet)}

\* request ids a caller can pass: those of the stored requests and one nobody has
RequestIdInputs(ls) ==
    (IF readsArray(ls, CREDENTIAL_REQUESTS_KEY)
     THEN {getCredentialRequests(ls)[i].id : i \in 1..Len(getCredentialRequests(ls))}
     ELSE {})
        \cup {"req_unknown", "req_mine"}

\* window.location.origin of the deployment
windowOrigin ==
    <<"h", "t", "t", "p", ":", "/", "/", "l", "o", "c", "a", "l", "h", "o", "s", "t",
      ":", "8", "0", "8", "0">>
otherOrigin ==
    <<"h", "t", "t", "p", "s", ":", "/", "/", "c", "v", ".", "i", "o">>
\* the baseUrl argument: omitted, empty, or another origin
BaseUrlInputs == {None, Some(<<>>), Some(otherOrigin)}

\* URLTestComponent's state when it mounts
initialWalletAddress ==
    <<"0", "x", "1", "2", "3", "4", "5", "6", "7", "8", "9", "0", "a", "b", "c", "d",
      "e", "f">>
initialCredentialId ==
    <<"c", "e", "r", "t", "-", "1", "2", "3">>
initialForm ==
    [walletAddress |-> initialWalletAddress, credentialId |-> initialCredentialId,
     generatedUrl |-> <<>>, error |-> ""]
initialLocation == windowOrigin \o <<"/">>

paddedHexWallet ==
    <<" ", "0", "x", "A", "B", "1", "2", " ">>
paddedNamedWallet ==
    <<"\t", "a", "l", "i", "c", "e", ".", "a", "p", "t", "\n">>
bareHexPrefix ==
    <<"0", "x">>
tooShortWallet ==
    <<"a", "b">>
blankText ==
    <<" ", " ">>
freeFormWallet ==
    <<"a", "&", "b", "=", "c", " ", "d">>
reservedCharsWallet ==
    <<"x", "#", "y", "?", "z", "%", "4", "1", "+", "/">>
\* what a user can have typed into the wallet address field
UrlWalletInputs ==
    {<<>>, shortHexWallet, paddedHexWallet, malformedHexWallet, namedWallet,
     paddedNamedWallet, bareHexPrefix, tooShortWallet, blankText, freeFormWallet,
     reservedCharsWallet}

TextsUpTo(alphabet, n) == UNION {[1..k -> alphabet] : k \in 0..n}
IdAlphabet == {"a", "&", "=", "%", " "}
paddedCredentialId ==
    <<" ", "c", "1", " ">>
parameterLikeId ==
    <<"a", "&", "t", "y", "p", "e", "=", "x">>
reservedCharsId ==
    <<"a", "+", "b", "#", "c", "?", "d">>
encodedLookingId ==
    <<"%", "4", "1", "%", "z", "z">>
\* what a user can have typed into the credential id field
UrlIdInputs ==
    TextsUpTo(IdAlphabet, MaxTextLen)
        \cup {initialCredentialId, paddedCredentialId, parameterLikeId, reservedCharsId,
              encodedLookingId}

foreignQuery ==
    <<"/", "v", "e", "r", "i", "f", "y", "?", "t", "y", "p", "e", "=", "d", "e", "g",
      "r", "e", "e", "&", "a", "d", "d", "r", "e", "s", "s", "=", "0", "x", "A", "B",
      "1", "2", "&", "i", "s", "s", "u", "e", "r", "=", "x", "&", "a", "d", "d", "r",
      "e", "s", "s", "=", "0", "x", "C", "D", "#", "c", "r", "e", "d", "e", "n", "t",
      "i", "a", "l", "I", "d", "=", "c", "9">>
\* addresses the page can have been opened at
LocationInputs == {initialLocation, windowOrigin \o foreignQuery}

\* a text of n copies of one character
Repeat(c, n) == [i \in 1..n |-> c]
hexNamedWallet ==
    <<"0", "x", "Z", "Z", ".", "a", "p", "t">>
longMalformedHexWallet ==
    <<"0", "x", "a", "b", "c", "d", "e", "f", "g", "h">>
misplacedAptWallet ==
    <<"a", "l", "i", "c", "e", ".", "a", "p", "t", "x">>
spacedNamedWallet ==
    <<"a", "l", " ", "i", "c", "e", ".", "a", "p", "t">>
bareApt ==
    <<".", "a", "p", "t">>
\* the strings the wallet validators are compared on
ValidatorInputs ==
    UrlWalletInputs
        \cup {hexNamedWallet, longMalformedHexWallet, misplacedAptWallet, spacedNamedWallet,
              bareApt, seedStudentWallet, initialWalletAddress}
        \cup {zeroX \o Repeat("f", n) : n \in {HexMaxDigits - 1, HexMaxDigits, HexMaxDigits + 1}}
        \cup {Repeat("w", n) : n \in {MinWalletLen - 1, MinWalletLen, MaxWalletLen,
                                      MaxWalletLen + 1}}

sampleUrl ==
    <<"h", "t", "t", "p", ":", "/", "/", "l", "o", "c", "a", "l", "h", "o", "s", "t",
      ":", "8", "0", "8", "0", "/", "v", "e", "r", "i", "f", "y", "?", "a", "d", "d",
      "r", "e", "s", "s", "=", "0", "x", "A", "B", "1", "2", "&", "c", "r", "e", "d",
      "e", "n", "t", "i", "a", "l", "I", "d", "=", "c", "e", "r", "t", "-", "1", "2",
      "3">>
\* the texts and lengths sanitizeUrlForDisplay is called with
DisplayUrlInputs == {SubSeq(sampleUrl, 1, n) : n \in 0..MaxUrlLen}
MaxLengthInputs == (0 - MaxUrlLen - 2)..(MaxUrlLen + 2)

\* two tabs of one browser on the same origin: they share localStorage
Tabs == {"tab1", "tab2"}
\* a tab's ledger call: where it stands, the call, the list it holds, its outcome
Tab(pc, op, arg, local, err, ret) ==
    [pc |-> pc, op |-> op, arg |-> arg, local |-> local, err |-> err, ret |-> ret]
idleTabs == [t \in Tabs |-> Tab("idle", "", <<>>, <<>>, "", None)]

\* the request a student has submitted before the tabs start
submittedRequest ==
    [studentName |-> "Alex", studentEmail |-> seedStudentEmail,
     studentWalletAddress |-> seedStudentWallet,
     issuerWalletAddress |-> seedIssuerWallet, issuerName |-> "Dr. Michael Issuer",
     issuerInstitution |-> "Dr. Michael Issuer", credentialTitle |-> "BSc",
     description |-> "degree"]
storeWithRequest ==
    submitCredentialRequest([k \in StoreKeys |-> None], submittedRequest, 1).ls

\* the ledger calls a tab can start: a decision on a stored request or on an unknown
\* one, or a further request
TabCallInputs(ls) ==
    LET ids == {getCredentialRequests(ls)[i].id : i \in 1..Len(getCredentialRequests(ls))}
                   \cup {"req_unknown"}
    IN  {[op |-> "approveCredentialRequest",
          arg |-> [requestId |-> id,
                   metadata |-> [credentialType |-> "Certificate", eventLink |-> "",
                                 issueDate |-> "", additionalMetadata |-> ""]]] : id \in ids}
        \cup {[op |-> "rejectCredentialRequest",
               arg |-> [requestId |-> id, rejectionNote |-> None]] : id \in ids}
        \cup {[op |-> "submitCredentialRequest",
               arg |-> [studentName |-> "Bo", studentEmail |-> mixedCaseStudentEmail,
                        studentWalletAddress |-> shortHexWallet,
                        issuerWalletAddress |-> namedWallet, issuerName |-> "Cy",
                        issuerInstitution |-> "Cy", credentialTitle |-> "Badge",
                        description |-> ""]]}

(* ------------------------------- actions ------------------------------- *)
Call(op, arg, o) == [op |-> op, arg |-> arg, err |-> o.err, ret |-> o.ret]

Init ==
    /\ localStorage = [k \in StoreKeys |-> None]
    /\ user = None
    /\ clock = 1
    /\ last = [op |-> "init", arg |-> <<>>, err |-> "", ret |-> None]
    /\ form = initialForm
    /\ location = initialLocation
    /\ clip = idleClip
    /\ tabs = idleTabs

\* Each sign-in action is the call followed, as in every caller, by login(profile)
\* when it returned a profile.
SignInStudent ==
    \E data \in StudentSignInInputs :
        \E o \in {signInStudent(localStorage, data)} :
            /\ localStorage' = o.ls
            /\ user' = IF o.err = "" /\ o.ret # None THEN login(o.ret[1]) ELSE user
            /\ last' = Call("signInStudent", data, o)
            /\ UNCHANGED <<clock, form, location, clip, tabs>>

SignInStaff ==
    \E data \in EmailSignInInputs :
        \E o \in {signInStaff(localStorage, data)} :
            /\ localStorage' = o.ls
            /\ user' = IF o.err = "" /\ o.ret # None THEN login(o.ret[1]) ELSE user
            /\ last' = Call("signInStaff", data, o)
            /\ UNCHANGED <<clock, form, location, clip, tabs>>

SignInIssuer ==
    \E data \in EmailSignInInputs :
        \E o \in {signInIssuer(localStorage, data)} :
            /\ localStorage' = o.ls
            /\ user' = IF o.err = "" /\ o.ret # None THEN login(o.ret[1]) ELSE user
            /\ last' = Call("signInIssuer", data, o)
            /\ UNCHANGED <<clock, form, location, clip, tabs>>

\* A call that generates an id takes a fresh clock value when it does not throw.
RegisterStudent ==
    \E data \in RegistrationInputs :
        \E o \in {registerStudent(localStorage, data, clock)} :
            /\ clock <= MaxClock
            /\ localStorage' = o.ls
            /\ clock' = IF o.err = "" THEN clock + 1 ELSE clock
            /\ last' = Call("registerStudent", data, o)
            /\ UNCHANGED <<user, form, location, clip, tabs>>

RegisterStaff ==
    \E data \in RegistrationInputs :
        \E o \in {registerStaff(localStorage, data, clock)} :
            /\ clock <= MaxClock
            /\ localStorage' = o.ls
            /\ clock' = IF o.err = "" THEN clock + 1 ELSE clock
            /\ last' = Call("registerStaff", data, o)
            /\ UNCHANGED <<user, form, location, clip, tabs>>

RegisterIssuer ==
    \E data \in RegistrationInputs :
        \E o \in {registerIssuer(localStorage, data, clock)} :
            /\ clock <= MaxClock
            /\ localStorage' = o.ls
            /\ clock' = IF o.err = "" THEN clock + 1 ELSE clock
            /\ last' = Call("registerIssuer", data, o)
            /\ UNCHANGED <<user, form, location, clip, tabs>>

\* seedTestUsers() generates no id: it reads the time without needing a fresh value
SeedTestUsers ==
    \E o \in {seedTestUsers(localStorage, clock)} :
        /\ localStorage' = o.ls
        /\ last' = Call("seedTestUsers", <<>>, o)
        /\ UNCHANGED <<user, clock, form, location, clip, tabs>>

LoadUserProfile ==
    /\ user' = loadUserProfile(localStorage)
    /\ last' = [op |-> "loadUserProfile", arg |-> <<>>, err |-> "", ret |-> None]
    /\ UNCHANGED <<localStorage, clock, form, location, clip, tabs>>

Logout ==
    /\ localStorage' = handleLogout(localStorage).ls
    /\ user' = handleLogout(localStorage).user
    /\ last' = [op |-> "logout", arg |-> <<>>, err |-> "", ret |-> None]
    /\ UNCHANGED <<clock, form, location, clip, tabs>>

UpdateProfile ==
    \E updates \in ProfileUpdateInputs :
        /\ localStorage' = updateProfile(localStorage, user, updates).ls
        /\ user' = updateProfile(localStorage, user, updates).user
        /\ last' = [op |-> "updateProfile", arg |-> updates, err |-> "", ret |-> None]
        /\ UNCHANGED <<clock, form, location, clip, tabs>>

SubmitCredentialRequest ==
    \E request \in CredentialRequestInputs :
        \E o \in {submitCredentialRequest(localStorage, request, clock)} :
            /\ clock <= MaxClock
            /\ localStorage' = o.ls
            /\ clock' = clock + 1
            /\ last' = Call("submitCredentialRequest", request, o)
            /\ UNCHANGED <<user, form, location, clip, tabs>>

SaveIssuedCredential ==
    \E credential \in CredentialInputs :
        \E o \in {saveIssuedCredential(localStorage, credential, clock)} :
            /\ clock <= MaxClock
            /\ localStorage' = o.ls
            /\ clock' = clock + 1
            /\ last' = Call("saveIssuedCredential", credential, o)
            /\ UNCHANGED <<user, form, location, clip, tabs>>

ApproveCredentialRequest ==
    \E requestId \in RequestIdInputs(localStorage) : \E metadata \in MetadataInputs :
        \E o \in {approveCredentialRequest(localStorage, requestId, metadata, clock)} :
            /\ clock <= MaxClock
            /\ localStorage' = o.ls
            /\ clock' = IF o.err = "" THEN clock + 1 ELSE clock
            /\ last' = Call("approveCredentialRequest",
                            [requestId |-> requestId, metadata |-> metadata], o)
            /\ UNCHANGED <<user, form, location, clip, tabs>>

ApproveCredentialRequestFailing ==
    \E requestId \in RequestIdInputs(localStorage) : \E metadata \in MetadataInputs :
        \E fault \in FaultInputs :
            \E o \in {approveCredentialRequestFailing(localStorage, requestId, metadata,
                                                       fault)} :
                /\ localStorage' = o.ls
                /\ last' = Call("approveCredentialRequest",
                                [requestId |-> requestId, metadata |-> metadata], o)
                /\ UNCHANGED <<user, clock, form, location, clip, tabs>>

RejectCredentialRequest ==
    \E requestId \in RequestIdInputs(localStorage) : \E note \in RejectionNoteInputs :
        \E o \in {rejectCredentialRequest(localStorage, requestId, note)} :
            /\ localStorage' = o.ls
            /\ last' = Call("rejectCredentialRequest",
                            [requestId |-> requestId, rejectionNote |-> note], o)
            /\ UNCHANGED <<user, clock, form, location, clip, tabs>>

GetCredentialsByIssuer ==
    \E address \in WalletQueryInputs :
        \E o \in {getCredentialsByIssuer(localStorage, address)} :
            /\ last' = Call("getCredentialsByIssuer", address, o)
            /\ UNCHANGED <<localStorage, user, clock, form, location, clip, tabs>>

GetCredentialsForStudent ==
    \E address \in WalletQueryInputs :
        \E o \in {getCredentialsForStudent(localStorage, address)} :
            /\ last' = Call("getCredentialsForStudent", address, o)
            /\ UNCHANGED <<localStorage, user, clock, form, location, clip, tabs>>

GetPendingRequestsForIssuer ==
    \E address \in WalletQueryInputs :
        \E o \in {getPendingRequestsForIssuer(localStorage, address)} :
            /\ last' = Call("getPendingRequestsForIssuer", address, o)
            /\ UNCHANGED <<localStorage, user, clock, form, location, clip, tabs>>

\* a writer other than this program leaves a text under one of the keys
ForeignWrite ==
    \E key \in StoreKeys : \E text \in ForeignTexts :
        /\ localStorage' = setItem(localStorage, key, text)
        /\ last' = [op |-> "foreignWrite", arg |-> key, err |-> "", ret |-> None]
        /\ UNCHANGED <<user, clock, form, location, clip, tabs>>

\* URLTestComponent.testUrlGeneration; the same call is made with a base URL by a caller
\* that passes one
TestUrlGeneration ==
    \E baseUrl \in BaseUrlInputs :
        \E o \in {generateVerificationUrl(form.walletAddress, form.credentialId, baseUrl,
                                          windowOrigin)} :
            /\ form' = [form EXCEPT !.error = o.err,
                                    !.generatedUrl = IF o.err = "" THEN o.ret[1] ELSE <<>>]
            /\ last' = Call("generateVerificationUrl",
                            <<form.walletAddress, form.credentialId, baseUrl>>, o)
            /\ UNCHANGED <<localStorage, user, clock, location, clip, tabs>>

\* URLTestComponent.testProfileUrl
TestProfileUrl ==
    \E baseUrl \in BaseUrlInputs :
        \E o \in {generateProfileUrl(form.walletAddress, baseUrl, windowOrigin)} :
            /\ form' = [form EXCEPT !.error = o.err,
                                    !.generatedUrl = IF o.err = "" THEN o.ret[1] ELSE <<>>]
            /\ last' = Call("generateProfileUrl", <<form.walletAddress, baseUrl>>, o)
            /\ UNCHANGED <<localStorage, user, clock, location, clip, tabs>>

\* the link to the generated URL is followed: the page opens at that address and
\* reads its parameters when it mounts
OpenGeneratedUrl ==
    /\ form.generatedUrl # <<>>
    /\ location' = form.generatedUrl
    /\ last' = [op |-> "parseUrlParams", arg |-> form.generatedUrl, err |-> "",
                ret |-> Some(parseUrlParams(form.generatedUrl))]
    /\ UNCHANGED <<localStorage, user, clock, form, clip, tabs>>

\* a render of a page that reads the parameters of its own address
ParseUrlParams ==
    /\ last' = [op |-> "parseUrlParams", arg |-> location, err |-> "",
                ret |-> Some(parseUrlParams(location))]
    /\ UNCHANGED <<localStorage, user, clock, form, location, clip, tabs>>

SanitizeUrlForDisplay ==
    \E url \in DisplayUrlInputs : \E maxLength \in MaxLengthInputs :
        /\ last' = [op |-> "sanitizeUrlForDisplay", arg |-> <<url, maxLength>>, err |-> "",
                    ret |-> Some(sanitizeUrlForDisplay(url, maxLength))]
        /\ UNCHANGED <<localStorage, user, clock, form, location, clip, tabs>>

IsValidWalletAddress ==
    \E address \in ValidatorInputs :
        /\ last' = [op |-> "isValidWalletAddress", arg |-> address, err |-> "",
                    ret |-> Some(isValidWalletAddress(address))]
        /\ UNCHANGED <<localStorage, user, clock, form, location, clip, tabs>>

IsValidWallet ==
    \E address \in ValidatorInputs :
        /\ last' = [op |-> "isValidWallet", arg |-> address, err |-> "",
                    ret |-> Some(isValidWallet(address))]
        /\ UNCHANGED <<localStorage, user, clock, form, location, clip, tabs>>

\* a caller (QRModal.copyVerificationUrl, the share buttons) calls copyToClipboard in
\* some browser; stage 1 is skipped without the clipboard API or a secure context
CopyToClipboard ==
    \E env \in Browsers :
        /\ clip.pc \in {"idle", "done"}
        /\ clip' = [idleClip EXCEPT !.env = Some(env),
                                    !.pc = IF env.clipboardApi THEN "clipboard-api"
                                           ELSE "execCommand"]
        /\ UNCHANGED <<localStorage, user, clock, last, form, location, tabs>>

\* stage 1: await navigator.clipboard.writeText(text)
WriteText ==
    /\ clip.pc = "clipboard-api"
    /\ \E o \in {writeText(clip.env[1], clip.attached, clip.shown)} :
           clip' = [clip EXCEPT !.pc = copyToClipboard("clipboard-api", o),
                                !.attempts = Append(@, "clipboard-api"),
                                !.settled = IF o.settled = "resolved" THEN "returned" ELSE "",
                                !.result = o.result]
    /\ UNCHANGED <<localStorage, user, clock, last, form, location, tabs>>

\* stage 2: await copyWithExecCommand(text)
CopyWithExecCommand ==
    /\ clip.pc = "execCommand"
    /\ \E o \in {copyWithExecCommand(clip.env[1], clip.attached, clip.shown)} :
           clip' = [clip EXCEPT !.pc = copyToClipboard("execCommand", o),
                                !.attempts = Append(@, "execCommand"),
                                !.attached = o.attached,
                                !.settled = IF copyToClipboard("execCommand", o) = "done"
                                            THEN "returned" ELSE "",
                                !.result = IF copyToClipboard("execCommand", o) = "done"
                                           THEN o.result ELSE None]
    /\ UNCHANGED <<localStorage, user, clock, last, form, location, tabs>>

\* stage 3: await copyWithTextSelection(text)
CopyWithTextSelection ==
    /\ clip.pc = "manual-select"
    /\ \E o \in {copyWithTextSelection(clip.env[1], clip.attached, clip.shown)} :
           clip' = [clip EXCEPT !.pc = copyToClipboard("manual-select", o),
                                !.attempts = Append(@, "manual-select"),
                                !.attached = o.attached,
                                !.settled = IF copyToClipboard("manual-select", o) = "done"
                                            THEN "returned" ELSE "",
                                !.result = IF copyToClipboard("manual-select", o) = "done"
                                           THEN o.result ELSE None]
    /\ UNCHANGED <<localStorage, user, clock, last, form, location, tabs>>

\* stage 4: return showManualCopyFallback(text); what it throws rejects the call
ShowManualCopyFallback ==
    /\ clip.pc = "fallback"
    /\ \E o \in {showManualCopyFallback(clip.env[1], clip.attached, clip.shown)} :
           clip' = [clip EXCEPT !.pc = copyToClipboard("fallback", o),
                                !.attempts = Append(@, "fallback"),
                                !.attached = o.attached,
                                !.shown = o.shown,
                                !.settled = IF o.settled = "threw" THEN "rejected"
                                            ELSE "returned",
                                !.result = o.result]
    /\ UNCHANGED <<localStorage, user, clock, last, form, location, tabs>>

\* A tab starts approveCredentialRequest, rejectCredentialRequest or
\* submitCredentialRequest.  The calls of one tab run one after the other; the reads
\* and writes of two tabs on the shared store interleave.  submitCredentialRequest
\* builds its record, with Date.now(), before it reads the list.
BeginLedgerCall ==
    \E t \in Tabs : \E call \in TabCallInputs(localStorage) :
        /\ tabs[t].pc \in {"idle", "done"}
        /\ IF call.op = "submitCredentialRequest"
           THEN /\ clock <= MaxClock
                /\ clock' = clock + 1
                /\ tabs' = [tabs EXCEPT ![t] =
                               Tab("readRequests", call.op, call.arg, <<>>, "",
                                   Some(Spread(call.arg,
                                               [id |-> "req_" \o ToString(clock),
                                                requestDate |-> toISOString(clock),
                                                status |-> "pending"])))]
           ELSE /\ clock' = clock
                /\ tabs' = [tabs EXCEPT ![t] =
                               Tab("readRequests", call.op, call.arg, <<>>, "", None)]
        /\ UNCHANGED <<localStorage, user, last, form, location, clip>>

\* getCredentialRequests() and what the call does with the list before it writes:
\* push for a submit; findIndex, the two checks and the new status for a decision
ReadCredentialRequests ==
    \E t \in Tabs :
        /\ tabs[t].pc = "readRequests"
        /\ \E stored \in {getCredentialRequests(localStorage)} :
           \E requestIndex \in {IF tabs[t].op = "submitCredentialRequest" THEN 0
                                ELSE findIndex(stored, tabs[t].arg.requestId)} :
               tabs' = [tabs EXCEPT ![t] =
                   IF tabs[t].op = "submitCredentialRequest"
                   THEN [tabs[t] EXCEPT !.pc = "writeRequests",
                                        !.local = Append(stored, tabs[t].ret[1])]
                   ELSE IF requestIndex = 0
                   THEN [tabs[t] EXCEPT !.pc = "done", !.err = RequestNotFound]
                   ELSE IF stored[requestIndex].status # "pending"
                   THEN [tabs[t] EXCEPT !.pc = "done", !.err = RequestNotPending]
                   ELSE IF tabs[t].op = "approveCredentialRequest"
                   THEN [tabs[t] EXCEPT !.pc = "writeRequests",
                                  !.local = [stored EXCEPT ![requestIndex] =
                                      Spread(stored[requestIndex], [status |-> "approved"])]]
                   ELSE [tabs[t] EXCEPT !.pc = "writeRequests",
                                  !.local = [stored EXCEPT ![requestIndex] =
                                      Spread(stored[requestIndex],
                                             [status |-> "rejected",
                                              rejectionNote |->
                                                  IF tabs[t].arg.rejectionNote = None
                                                         \/ tabs[t].arg.rejectionNote = Some("")
                                                  THEN DefaultRejectionNote
                                                  ELSE tabs[t].arg.rejectionNote[1]])]]]
        /\ UNCHANGED <<localStorage, user, clock, last, form, location, clip>>

\* localStorage.setItem(CREDENTIAL_REQUESTS_KEY, JSON.stringify(list)): the end of a
\* submit or a reject; an approve goes on to saveIssuedCredential
WriteCredentialRequests ==
    \E t \in Tabs :
        /\ tabs[t].pc = "writeRequests"
        /\ localStorage' = setItem(localStorage, CREDENTIAL_REQUESTS_KEY,
                                   stringifyList(tabs[t].local))
        /\ tabs' = [tabs EXCEPT ![t] =
               IF tabs[t].op = "approveCredentialRequest" THEN [tabs[t] EXCEPT !.pc = "readCredentials"]
               ELSE IF tabs[t].op = "rejectCredentialRequest"
               THEN [tabs[t] EXCEPT !.pc = "done",
                              !.ret = Some(tabs[t].local[findIndex(tabs[t].local, tabs[t].arg.requestId)])]
               ELSE [tabs[t] EXCEPT !.pc = "done"]]
        /\ UNCHANGED <<user, clock, last, form, location, clip>>

\* saveIssuedCredential inside approve: the record is built, with Date.now(), from the
\* request the tab holds, then getIssuedCredentials() is read and the record pushed
ReadIssuedCredentials ==
    \E t \in Tabs :
        /\ tabs[t].pc = "readCredentials"
        /\ clock <= MaxClock
        /\ clock' = clock + 1
        /\ \E request \in {tabs[t].local[findIndex(tabs[t].local, tabs[t].arg.requestId)]} :
           \E issuedCredential \in
                 {Spread([title |-> request.credentialTitle,
                          description |-> request.description,
                          studentWalletAddress |-> request.studentWalletAddress,
                          issuerWalletAddress |-> request.issuerWalletAddress,
                          issuerName |-> request.issuerName,
                          issuerInstitution |-> request.issuerInstitution],
                         [id |-> "cred_" \o ToString(clock),
                          issuedDate |-> toISOString(clock),
                          status |-> "issued"])} :
               tabs' = [tabs EXCEPT ![t] =
                   [tabs[t] EXCEPT !.pc = "writeCredentials",
                             !.local = Append(getIssuedCredentials(localStorage),
                                              issuedCredential),
                             !.ret = Some([request |-> request,
                                           credential |-> issuedCredential])]]
        /\ UNCHANGED <<localStorage, user, last, form, location, clip>>

\* localStorage.setItem(ISSUED_CREDENTIALS_KEY, JSON.stringify(existing)) and the
\* return of approveCredentialRequest
WriteIssuedCredentials ==
    \E t \in Tabs :
        /\ tabs[t].pc = "writeCredentials"
        /\ localStorage' = setItem(localStorage, ISSUED_CREDENTIALS_KEY,
                                   stringifyList(tabs[t].local))
        /\ tabs' = [tabs EXCEPT ![t] = [tabs[t] EXCEPT !.pc = "done"]]
        /\ UNCHANGED <<user, clock, last, form, location, clip>>

\* QRModal: generateQRVerificationData(credential, walletAddress) for the credential
\* and the address on the form
GenerateQRVerificationData ==
    \E credential \in {[id |-> form.credentialId, title |-> "BSc", issuer |-> "Inst",
                        type |-> "Certificate", date |-> "2024-01-01"]} :
        \E o \in {generateQRVerificationData(credential, form.walletAddress, None,
                                             windowOrigin, clock)} :
            /\ last' = Call("generateQRVerificationData",
                            <<credential, form.walletAddress>>, o)
            /\ UNCHANGED <<localStorage, user, clock, form, location, clip, tabs>>

\* VerificationPage's share button: createShareableUrl(shareCredential, walletAddress)
CreateShareableUrl ==
    \E credential \in {[id |-> form.credentialId, title |-> "BSc", issuer |-> "Inst",
                        type |-> "Credential"]} :
        \E o \in {createShareableUrl(credential, form.walletAddress, windowOrigin)} :
            /\ last' = Call("createShareableUrl", <<credential, form.walletAddress>>, o)
            /\ UNCHANGED <<localStorage, user, clock, form, location, clip, tabs>>

Next ==
    \/ SignInStudent
    \/ SignInStaff
    \/ SignInIssuer
    \/ RegisterStudent
    \/ RegisterStaff
    \/ RegisterIssuer
    \/ SeedTestUsers
    \/ LoadUserProfile
    \/ Logout
    \/ UpdateProfile
    \/ SubmitCredentialRequest
    \/ SaveIssuedCredential
    \/ ApproveCredentialRequest
    \/ ApproveCredentialRequestFailing
    \/ RejectCredentialRequest
    \/ GetCredentialsByIssuer
    \/ GetCredentialsForStudent
    \/ GetPendingRequestsForIssuer
    \/ TestUrlGeneration
    \/ TestProfileUrl
    \/ OpenGeneratedUrl
    \/ ParseUrlParams
    \/ SanitizeUrlForDisplay
    \/ IsValidWalletAddress
    \/ IsValidWallet
    \/ CopyToClipboard
    \/ WriteText
    \/ CopyWithExecCommand
    \/ CopyWithTextSelection
    \/ ShowManualCopyFallback
    \/ BeginLedgerCall
    \/ ReadCredentialRequests
    \/ WriteCredentialRequests
    \/ ReadIssuedCredentials
    \/ WriteIssuedCredentials
    \/ GenerateQRVerificationData
    \/ CreateShareableUrl

\* The whole program.  The identity store and the credential ledger share no key of
\* the store, so the claims are checked under the smaller specifications below, each
\* over the actions that read or write the keys the claim is about.
Spec == Init /\ [][Next]_vars

\* the identity store and the session on their own
NextAuth ==
    \/ SignInStudent
    \/ SignInStaff
    \/ SignInIssuer
    \/ RegisterStudent
    \/ RegisterStaff
    \/ RegisterIssuer
    \/ SeedTestUsers
    \/ LoadUserProfile
    \/ Logout
    \/ UpdateProfile

SpecAuth == Init /\ [][NextAuth]_vars

\* the credential ledger on its own
NextLedger ==
    \/ SubmitCredentialRequest
    \/ SaveIssuedCredential
    \/ ApproveCredentialRequest
    \/ RejectCredentialRequest

SpecLedger == Init /\ [][NextLedger]_vars

\* the credential ledger when an approval can be cut short between its writes
NextInterrupted ==
    \/ SubmitCredentialRequest
    \/ SaveIssuedCredential
    \/ ApproveCredentialRequest
    \/ ApproveCredentialRequestFailing

SpecInterrupted == Init /\ [][NextInterrupted]_vars

\* the credential ledger and the queries the dashboards make
NextQueries ==
    \/ SubmitCredentialRequest
    \/ SaveIssuedCredential
    \/ ApproveCredentialRequest
    \/ RejectCredentialRequest
    \/ GetCredentialsByIssuer
    \/ GetCredentialsForStudent
    \/ GetPendingRequestsForIssuer

SpecQueries == Init /\ [][NextQueries]_vars

\* the session over a seeded registry and a ledger in use
NextSession ==
    \/ SeedTestUsers
    \/ SignInStudent
    \/ SignInStaff
    \/ LoadUserProfile
    \/ Logout
    \/ UpdateProfile
    \/ SubmitCredentialRequest
    \/ SaveIssuedCredential

SpecSession == Init /\ [][NextSession]_vars

\* the program over a store that other writers share
NextShared ==
    \/ ForeignWrite
    \/ LoadUserProfile
    \/ SignInStaff
    \/ RegisterStaff
    \/ SubmitCredentialRequest
    \/ SaveIssuedCredential
    \/ ApproveCredentialRequest
    \/ RejectCredentialRequest
    \/ GetCredentialsByIssuer
    \/ GetCredentialsForStudent
    \/ GetPendingRequestsForIssuer

\* the store after seedTestUsers(), a submitCredentialRequest and a saveIssuedCredential
\* at times 1 and 2
storeInUse ==
    LET seeded == seedTestUsers([k \in StoreKeys |-> None], 1).ls
        submitted ==
            submitCredentialRequest(
                seeded,
                [studentName |-> "Alex", studentEmail |-> seedStudentEmail,
                 studentWalletAddress |-> seedStudentWallet,
                 issuerWalletAddress |-> seedIssuerWallet, issuerName |-> "Dr. Michael Issuer",
                 issuerInstitution |-> "Dr. Michael Issuer", credentialTitle |-> "BSc",
                 description |-> "degree"],
                1).ls
    IN  saveIssuedCredential(
            submitted,
            [title |-> "Minted", description |-> "by hand",
             studentWalletAddress |-> shortHexWallet, issuerWalletAddress |-> seedIssuerWallet,
             issuerName |-> "Dr. Michael Issuer", issuerInstitution |-> "Unknown Institution"],
            2).ls

InitShared ==
    /\ localStorage = storeInUse
    /\ user = None
    /\ clock = 3
    /\ last = [op |-> "init", arg |-> <<>>, err |-> "", ret |-> None]
    /\ form = initialForm
    /\ location = initialLocation
    /\ clip = idleClip
    /\ tabs = idleTabs

SpecShared == InitShared /\ [][NextShared]_vars

\* The verification links: the form as a user has filled it in, the two generators,
\* the page a generated link opens and the parameters it reads.
NextUrl ==
    \/ TestUrlGeneration
    \/ TestProfileUrl
    \/ OpenGeneratedUrl
    \/ ParseUrlParams
    \/ GenerateQRVerificationData
    \/ CreateShareableUrl

InitUrl ==
    /\ localStorage = [k \in StoreKeys |-> None]
    /\ user = None
    /\ clock = 1
    /\ last = [op |-> "init", arg |-> <<>>, err |-> "", ret |-> None]
    /\ form \in [walletAddress : UrlWalletInputs, credentialId : UrlIdInputs,
                 generatedUrl : {<<>>}, error : {""}]
    /\ location \in LocationInputs
    /\ clip = idleClip
    /\ tabs = idleTabs

SpecUrl == InitUrl /\ [][NextUrl]_vars

\* The pure helpers of the link utilities and the two wallet validators.
NextDisplay ==
    \/ SanitizeUrlForDisplay
    \/ IsValidWalletAddress
    \/ IsValidWallet

SpecDisplay == Init /\ [][NextDisplay]_vars

\* The clipboard helper: one call after another, each in a browser of its own.
NextClipboard ==
    \/ CopyToClipboard
    \/ WriteText
    \/ CopyWithExecCommand
    \/ CopyWithTextSelection
    \/ ShowManualCopyFallback

SpecClipboard == Init /\ [][NextClipboard]_vars

\* Two tabs working on the ledger of one store that already holds a pending request.
NextTabs ==
    \/ BeginLedgerCall
    \/ ReadCredentialRequests
    \/ WriteCredentialRequests
    \/ ReadIssuedCredentials
    \/ WriteIssuedCredentials

InitTabs ==
    /\ localStorage = storeWithRequest
    /\ user = None
    /\ clock = 2
    /\ last = [op |-> "init", arg |-> <<>>, err |-> "", ret |-> None]
    /\ form = initialForm
    /\ location = initialLocation
    /\ clip = idleClip
    /\ tabs = idleTabs

SpecTabs == InitTabs /\ [][NextTabs]_vars

(* ------------------------- views used by the claims -------------------- *)
users == getRegisteredUsers(localStorage)
requests == getCredentialRequests(localStorage)
credentials == getIssuedCredentials(localStorage)
IsLedgerDecision(c) == c.op \in {"approveCredentialRequest", "rejectCredentialRequest"}
IsRegistration(c) == c.op \in {"registerStudent", "registerStaff", "registerIssuer"}
IsSignIn(c) == c.op \in {"signInStudent", "signInStaff", "signInIssuer"}
SameEmail(a, b) == toLowerCase(a) = toLowerCase(b)
CredentialFields ==
    {"id", "title", "description", "studentWalletAddress", "issuerWalletAddress",
     "issuerName", "issuerInstitution", "issuedDate", "status"}

(* ------------------------------- claims -------------------------------- *)

\* C1: a stored request enters the list as pending, keeps its place and id, and its
\* status changes only from pending to approved or rejected; an approved or rejected
\* request keeps its status in every later step.
C1_RequestLifecycle ==
    [][ LET new == getCredentialRequests(localStorage')
        IN  /\ Len(new) >= Len(requests)
            /\ \A i \in 1..Len(requests) :
                  /\ new[i].id = requests[i].id
                  /\ \/ new[i].status = requests[i].status
                     \/ /\ requests[i].status = "pending"
                        /\ new[i].status \in {"approved", "rejected"}
            /\ \A i \in (Len(requests) + 1)..Len(new) : new[i].status = "pending"
      ]_vars

\* C1 witness: one request was approved, another rejected, and a further decision on
\* one of them has just been refused.
C1_Witness ==
    /\ IsLedgerDecision(last) /\ last.err = RequestNotPending
    /\ \E i \in 1..Len(requests) : requests[i].status = "approved"
    /\ \E i \in 1..Len(requests) : requests[i].status = "rejected"

\* C2: approving a pending request returns normally and appends exactly one credential,
\* with status issued and title, description, wallets, issuer name and institution taken
\* from the request and nothing from the metadata; an approve or reject of a request
\* that was already approved fails with "Request is not pending" and adds no credential.
C2_ApproveIssuesOnce ==
    [][ LET c == last'
            new == getIssuedCredentials(localStorage')
            idx == findIndex(requests, c.arg.requestId)
        IN  (IsLedgerDecision(c) /\ idx # 0) =>
              LET r == requests[idx]
              IN  /\ (c.op = "approveCredentialRequest" /\ r.status = "pending") =>
                        /\ c.err = ""
                        /\ Len(new) = Len(credentials) + 1
                        /\ SubSeq(new, 1, Len(credentials)) = credentials
                        /\ LET k == new[Len(new)]
                           IN  /\ DOMAIN k = CredentialFields
                               /\ k.status = "issued"
                               /\ k.title = r.credentialTitle
                               /\ k.description = r.description
                               /\ k.studentWalletAddress = r.studentWalletAddress
                               /\ k.issuerWalletAddress = r.issuerWalletAddress
                               /\ k.issuerName = r.issuerName
                               /\ k.issuerInstitution = r.issuerInstitution
                               /\ c.ret[1].credential = k
                  /\ r.status = "approved" =>
                        /\ c.err = RequestNotPending
                        /\ new = credentials
      ]_vars

\* C2 witness: a second approval of an approved request has just failed and the ledger
\* still holds the single credential of the first approval.
C2_Witness ==
    /\ last.op = "approveCredentialRequest" /\ last.err = RequestNotPending
    /\ findIndex(requests, last.arg.requestId) # 0
    /\ requests[findIndex(requests, last.arg.requestId)].status = "approved"
    /\ Len(credentials) = 1

\* C3: approve and reject with an id no stored request has fail with "Request not
\* found"; every failing approve or reject leaves the stored requests and the stored
\* credentials as they were.
C3_FailedDecisionChangesNothing ==
    [][ LET c == last'
        IN  IsLedgerDecision(c) =>
              /\ findIndex(requests, c.arg.requestId) = 0 => c.err = RequestNotFound
              /\ c.err # "" =>
                    /\ c.err \in {RequestNotFound, RequestNotPending}
                    /\ localStorage'[CREDENTIAL_REQUESTS_KEY]
                          = localStorage[CREDENTIAL_REQUESTS_KEY]
                    /\ localStorage'[ISSUED_CREDENTIALS_KEY]
                          = localStorage[ISSUED_CREDENTIALS_KEY]
      ]_vars

\* C3 witness: a reject of an unknown id has just failed while requests and
\* credentials are stored.
C3_Witness ==
    /\ last.op = "rejectCredentialRequest" /\ last.err = RequestNotFound
    /\ Len(requests) >= 1 /\ Len(credentials) >= 1

\* C4: no two stored users have the same lower-cased email.
C4_UniqueNormalizedEmail ==
    \A i \in 1..Len(users) : \A j \in 1..Len(users) :
        i # j => ~SameEmail(users[i].email, users[j].email)

\* C5: a registration whose email equals, ignoring letter case, the email of a stored
\* user of any role fails with "User with this email already exists" and leaves the
\* stored registry as it was.
C5_DuplicateRegistrationFails ==
    [][ LET c == last'
        IN  (/\ IsRegistration(c)
             /\ \E i \in 1..Len(users) : SameEmail(users[i].email, c.arg.email)) =>
              /\ c.err = DuplicateUser
              /\ localStorage'[REGISTERED_USERS_KEY] = localStorage[REGISTERED_USERS_KEY]
      ]_vars

\* C5 witness: a staff registration has just been refused because a user of another
\* role holds the same email in a different letter case.
C5_Witness ==
    /\ last.op = "registerStaff" /\ last.err = DuplicateUser
    /\ \E i \in 1..Len(users) :
          /\ SameEmail(users[i].email, last.arg.email)
          /\ users[i].email # last.arg.email
          /\ users[i].role # "staff"

RoleOfRegistration(op) ==
    IF op = "registerStudent" THEN "student"
    ELSE IF op = "registerStaff" THEN "staff" ELSE "issuer"

\* C6: a registration that returns appends exactly one user, the one it returns, to
\* the registry, and leaves the stored session and the provider's user as they were.
C6_RegistrationAppendsWithoutSession ==
    [][ LET c == last'
            new == getRegisteredUsers(localStorage')
        IN  (IsRegistration(c) /\ c.err = "") =>
              /\ Len(new) = Len(users) + 1
              /\ SubSeq(new, 1, Len(users)) = users
              /\ new[Len(new)] = c.ret[1]
              /\ new[Len(new)].email = c.arg.email
              /\ new[Len(new)].role = RoleOfRegistration(c.op)
              /\ getCurrentUser(localStorage') = getCurrentUser(localStorage)
              /\ user' = user
      ]_vars

\* C6 witness: a registration has just succeeded on a non-empty registry while
\* another user's session is active.
C6_Witness ==
    /\ IsRegistration(last) /\ last.err = ""
    /\ Len(users) >= 2
    /\ getCurrentUser(localStorage) # None
    /\ getCurrentUser(localStorage)[1].id # last.ret[1].id

\* the stored users whose email equals e ignoring case
Matching(e) == {i \in 1..Len(users) : SameEmail(users[i].email, e)}
WrongWalletForStudent(c) ==
    /\ c.op = "signInStudent"
    /\ \E i \in Matching(c.arg.email) : users[i].role = "student"
    /\ \A i \in Matching(c.arg.email) : users[i].walletAddress # c.arg.walletAddress

\* C7 as stated, for a well-formed email: signInStudent with a registered student's
\* email and any wallet address other than the registered one returns null and
\* raises nothing.
C7_WrongWalletReturnsNull ==
    (WrongWalletForStudent(last) /\ isValidEmail(last.arg.email)) =>
        (last.err = "" /\ last.ret = None)

\* the result signInStaff / signInIssuer give for email e, from the registry alone
ResultByEmail(e, role) ==
    LET found == Find(users, LAMBDA x : SameEmail(x.email, e))
    IN  IF ~isValidEmail(e) THEN [err |-> "Invalid email format", ret |-> None]
        ELSE IF found = None \/ found[1].role # role THEN [err |-> "", ret |-> None]
        ELSE [err |-> "", ret |-> Some(profileOf(found[1]))]

\* C7 amended: signInStudent with a well-formed email of a registered student and a
\* wallet address that no stored user with that email has returns null without an error when
\* the address passes isValidWallet, and raises "Invalid wallet address format" when
\* it does not; what signInStaff and signInIssuer raise and return is fixed by the
\* email and the registry, whatever wallet address the call carries.
C7_WrongValidWalletReturnsNull ==
    /\ (WrongWalletForStudent(last) /\ isValidEmail(last.arg.email)) =>
          IF isValidWallet(last.arg.walletAddress)
          THEN last.err = "" /\ last.ret = None
          ELSE last.err = "Invalid wallet address format" /\ last.ret = None
    /\ last.op = "signInStaff" =>
          [err |-> last.err, ret |-> last.ret] = ResultByEmail(last.arg.email, "staff")
    /\ last.op = "signInIssuer" =>
          [err |-> last.err, ret |-> last.ret] = ResultByEmail(last.arg.email, "issuer")

\* C7 witness: a student sign-in with the right email and a well-formed but wrong
\* wallet address has just returned null.
C7_Witness ==
    /\ WrongWalletForStudent(last)
    /\ isValidEmail(last.arg.email) /\ isValidWallet(last.arg.walletAddress)
    /\ last.err = "" /\ last.ret = None

RoleOfSignIn(op) ==
    IF op = "signInStudent" THEN "student"
    ELSE IF op = "signInStaff" THEN "staff" ELSE "issuer"

\* C8: a sign-in with well-formed input returns a profile exactly when the registry
\* holds a user of that role whose email matches ignoring case (and, for a student,
\* whose wallet address is the given one); the stored session then is that user.
C8_SignInFindsUserOfRole ==
    (/\ IsSignIn(last) /\ isValidEmail(last.arg.email)
     /\ last.op = "signInStudent" => isValidWallet(last.arg.walletAddress)) =>
        /\ last.err = ""
        /\ last.ret # None <=>
              \E i \in Matching(last.arg.email) :
                  /\ users[i].role = RoleOfSignIn(last.op)
                  /\ last.op = "signInStudent" =>
                        users[i].walletAddress = last.arg.walletAddress
        /\ last.ret # None =>
              \E i \in Matching(last.arg.email) :
                  getCurrentUser(localStorage) = Some(users[i])

\* C9: the role of the active session, stored and in the provider, is the role the
\* registry holds for that user.
C9_SessionRoleIsRegisteredRole ==
    \A p \in {user, getCurrentUser(localStorage)} :
        p # None =>
            \A i \in 1..Len(users) : users[i].id = p[1].id => users[i].role = p[1].role

\* C10: logout leaves the stored registry, credentials and requests as they were and
\* empties the stored session; an empty stored session stays empty until a sign-in
\* returns a profile.
C10_LogoutClearsSessionOnly ==
    [][ /\ last'.op = "logout" =>
              /\ localStorage'[REGISTERED_USERS_KEY] = localStorage[REGISTERED_USERS_KEY]
              /\ localStorage'[ISSUED_CREDENTIALS_KEY] = localStorage[ISSUED_CREDENTIALS_KEY]
              /\ localStorage'[CREDENTIAL_REQUESTS_KEY]
                    = localStorage[CREDENTIAL_REQUESTS_KEY]
              /\ getCurrentUser(localStorage') = None
        /\ (getCurrentUser(localStorage) = None /\ getCurrentUser(localStorage') # None) =>
              (IsSignIn(last') /\ last'.err = "" /\ last'.ret # None)
      ]_vars

\* C10 witness: a logout has just emptied the session while users, a request and a
\* credential are stored, and the provider still held the profile it cleared.
C10_Witness ==
    /\ last.op = "logout"
    /\ getCurrentUser(localStorage) = None /\ user = None
    /\ Len(users) >= 1 /\ Len(requests) >= 1 /\ Len(credentials) >= 1

ListKeys == {ISSUED_CREDENTIALS_KEY, REGISTERED_USERS_KEY, CREDENTIAL_REQUESTS_KEY}
\* the text under key is not one this program wrote
HoldsForeignText(key) == localStorage[key] # None /\ localStorage[key][1].text # "json"

\* C12: whatever text is stored under a key, the list reads give the empty list and
\* getCurrentUser gives null when the text is not a stored list or profile, and no
\* operation raises an error for the value it read.
C12_ForeignValueReadsAsAbsent ==
    /\ \A key \in ListKeys :
          HoldsForeignText(key) =>
              (readsArray(localStorage, key) /\ readStored(localStorage, key, <<>>) = <<>>)
    /\ HoldsForeignText(USER_PROFILE_KEY) => getCurrentUser(localStorage) = None
    /\ last.err # TypeError

\* C13: a stored request has a rejectionNote only when its status is rejected, and a
\* reject that returns stores a non-empty note: the caller's, or "Request was rejected"
\* when the caller gave none.
C13_NoteOnlyWhenRejected ==
    /\ \A i \in 1..Len(requests) :
          "rejectionNote" \in DOMAIN requests[i] => requests[i].status = "rejected"
    /\ (last.op = "rejectCredentialRequest" /\ last.err = "") =>
          /\ last.ret[1].rejectionNote # ""
          /\ last.arg.rejectionNote \in {None, Some("")} =>
                last.ret[1].rejectionNote = DefaultRejectionNote
          /\ requests[findIndex(requests, last.arg.requestId)] = last.ret[1]

\* C14: an approve that is cut short after its checks (execution stops, or the write of
\* the credentials fails) has stored the request as approved and has stored no
\* credential; an approved request stays approved, and every later approve of it fails
\* with "Request is not pending" and stores no credential.
C14_InterruptedApproveIsNotRetried ==
    [][ LET c == last'
            new == getCredentialRequests(localStorage')
        IN  /\ (c.op = "approveCredentialRequest" /\ c.err \in FaultInputs) =>
                  LET idx == findIndex(requests, c.arg.requestId)
                  IN  /\ idx # 0
                      /\ requests[idx].status = "pending"
                      /\ new = [requests EXCEPT ![idx] =
                                   Spread(requests[idx], [status |-> "approved"])]
                      /\ getIssuedCredentials(localStorage') = credentials
            /\ \A i \in 1..Len(requests) :
                  requests[i].status = "approved" =>
                      /\ Len(new) >= i /\ new[i] = requests[i]
                      /\ (c.op = "approveCredentialRequest"
                              /\ findIndex(requests, c.arg.requestId) = i) =>
                            /\ c.err = RequestNotPending
                            /\ getIssuedCredentials(localStorage') = credentials
      ]_vars

\* C14 witness: a second approve of a request has just been refused as not pending
\* while the request is stored as approved and no credential is stored at all.
C14_Witness ==
    /\ last.op = "approveCredentialRequest" /\ last.err = RequestNotPending
    /\ findIndex(requests, last.arg.requestId) # 0
    /\ requests[findIndex(requests, last.arg.requestId)].status = "approved"
    /\ credentials = <<>>

\* res holds the elements of list at the positions idx, in the order of list
IsSelection(res, list, idx) ==
    /\ Len(res) = Cardinality(idx)
    /\ \A i \in idx : res[Cardinality({j \in idx : j <= i})] = list[i]

\* C15: getCredentialsByIssuer and getCredentialsForStudent return the stored credentials
\* whose issuer / student wallet address is the given sequence of characters, and
\* getPendingRequestsForIssuer the stored requests that are pending and have that issuer
\* address, each in stored order and with nothing else.
C15_QueriesFilterExactlyInOrder ==
    /\ last.op = "getCredentialsByIssuer" =>
          /\ last.err = ""
          /\ IsSelection(last.ret[1], credentials,
                         {i \in 1..Len(credentials) :
                              credentials[i].issuerWalletAddress = last.arg})
    /\ last.op = "getCredentialsForStudent" =>
          /\ last.err = ""
          /\ IsSelection(last.ret[1], credentials,
                         {i \in 1..Len(credentials) :
                              credentials[i].studentWalletAddress = last.arg})
    /\ last.op = "getPendingRequestsForIssuer" =>
          /\ last.err = ""
          /\ IsSelection(last.ret[1], requests,
                         {i \in 1..Len(requests) :
                              /\ requests[i].status = "pending"
                              /\ requests[i].issuerWalletAddress = last.arg})

\* C15 witness: the pending requests of an issuer have just been read and are the one
\* pending request of two stored for that issuer, the other having been approved.
C15_Witness ==
    /\ last.op = "getPendingRequestsForIssuer" /\ last.err = ""
    /\ Len(requests) = 2
    /\ \A i \in 1..2 : requests[i].issuerWalletAddress = last.arg
    /\ requests[1].status = "approved"
    /\ last.ret[1] = <<requests[2]>>

\* C16 (as stated): for every a that passes isValidWalletAddress and every c that passes
\* isValidCredentialId, the parameters read from the URL generateVerificationUrl(a, c)
\* returned are address = a and credentialId = c, character for character.
C16_RoundTripGivesInputs ==
    [][(/\ last.op = "generateVerificationUrl" /\ last.err = ""
        /\ last'.op = "parseUrlParams" /\ last'.arg = last.ret[1]
        /\ isValidWalletAddress(last.arg[1]) /\ isValidCredentialId(last.arg[2]))
       => /\ last'.ret[1].address = Some(last.arg[1])
          /\ last'.ret[1].credentialId = Some(last.arg[2])]_vars

\* C16 (amended): for every a that passes isValidWalletAddress and every c that passes
\* isValidCredentialId, the parameters read from the URL generateVerificationUrl(a, c)
\* returned are address = a.trim() and credentialId = c.trim(): the round trip is exact
\* for inputs without surrounding whitespace, whatever characters they hold.
C16_RoundTripGivesTrimmedInputs ==
    [][(/\ last.op = "generateVerificationUrl" /\ last.err = ""
        /\ last'.op = "parseUrlParams" /\ last'.arg = last.ret[1]
        /\ isValidWalletAddress(last.arg[1]) /\ isValidCredentialId(last.arg[2]))
       => /\ last'.ret[1].address = Some(trim(last.arg[1]))
          /\ last'.ret[1].credentialId = Some(trim(last.arg[2]))]_vars

\* a link generated for a padded address and a padded id has been opened and read back
C16_Witness ==
    /\ last.op = "parseUrlParams" /\ last.arg = form.generatedUrl
    /\ form.walletAddress = paddedHexWallet /\ form.credentialId = paddedCredentialId
    /\ last.ret[1].address = Some(shortHexWallet)
    /\ last.ret[1].credentialId = Some(<<"c", "1">>)

\* C17: generateVerificationUrl raises the missing-field error when the address or the
\* id is empty, whatever else is wrong; otherwise 'Invalid wallet address format' when
\* the trimmed address fails isValidWalletAddress; otherwise it returns a URL, whatever
\* the id is.  generateProfileUrl does the same for its address.  The form shows the
\* error and no URL, or the URL and no error.
C17_GeneratorErrorsInOrder ==
    /\ last.op = "generateVerificationUrl" =>
          /\ IF last.arg[1] = <<>> \/ last.arg[2] = <<>>
             THEN last.err = "Wallet address and credential ID are required"
             ELSE IF ~isValidWalletAddress(trim(last.arg[1]))
             THEN last.err = "Invalid wallet address format"
             ELSE last.err = "" /\ last.ret # None /\ last.ret[1] # <<>>
          /\ form.error = last.err
          /\ form.generatedUrl = (IF last.err = "" THEN last.ret[1] ELSE <<>>)
    /\ last.op = "generateProfileUrl" =>
          /\ IF last.arg[1] = <<>>
             THEN last.err = "Wallet address is required"
             ELSE IF ~isValidWalletAddress(trim(last.arg[1]))
             THEN last.err = "Invalid wallet address format"
             ELSE last.err = "" /\ last.ret # None /\ last.ret[1] # <<>>
          /\ form.error = last.err
          /\ form.generatedUrl = (IF last.err = "" THEN last.ret[1] ELSE <<>>)

\* an empty id with an address that is not valid either: the missing-field error wins
C17_Witness ==
    /\ last.op = "generateVerificationUrl"
    /\ last.arg[1] = malformedHexWallet /\ last.arg[2] = <<>>
    /\ last.err = MissingAddressAndId /\ form.generatedUrl = <<>>

\* C18: a URL returned by generateVerificationUrl is {baseUrl or origin}/verify?address=
\* <encoded trimmed address>&credentialId=<encoded trimmed id>, address first, a function
\* of the inputs: each encoded part holds no character with a meaning in a query string
\* and decodes to the trimmed input.  A URL returned by generateProfileUrl carries the
\* address parameter only.  Read back, neither carries a type or an issuer parameter.
C18_GeneratedUrlForm ==
    (last.op \in {"generateVerificationUrl", "generateProfileUrl"} /\ last.err = "") =>
        LET url == last.ret[1]
            baseUrl == last.arg[Len(last.arg)]
            base == IF baseUrl = None \/ baseUrl = Some(<<>>) THEN windowOrigin ELSE baseUrl[1]
            address == formEncode(trim(last.arg[1]))
            id == formEncode(trim(last.arg[2]))
            Plain(text) == \A i \in 1..Len(text) : text[i] \in FormUnreserved \cup {"+", "%"}
            read == parseUrlParams(url)
        IN  /\ Plain(address) /\ formDecode(address) = trim(last.arg[1])
            /\ read.type = None /\ read.issuer = None
            /\ read.address = Some(trim(last.arg[1]))
            /\ IF last.op = "generateVerificationUrl"
               THEN /\ Plain(id) /\ formDecode(id) = trim(last.arg[2])
                    /\ url = base \o <<"/", "v", "e", "r", "i", "f", "y", "?">>
                                 \o <<"a", "d", "d", "r", "e", "s", "s", "=">> \o address
                                 \o <<"&", "c", "r", "e", "d", "e", "n", "t", "i", "a", "l",
                                      "I", "d", "=">> \o id
               ELSE /\ url = base \o <<"/", "v", "e", "r", "i", "f", "y", "?">>
                                 \o <<"a", "d", "d", "r", "e", "s", "s", "=">> \o address
                    /\ read.credentialId = None

\* a URL was returned for another base URL, an address with & = and a space in it, and
\* an id that looks like a further parameter
C18_Witness ==
    /\ last.op = "generateVerificationUrl" /\ last.err = ""
    /\ last.arg = <<freeFormWallet, parameterLikeId, Some(otherOrigin)>>
    /\ form.generatedUrl = last.ret[1]
    /\ SubSeq(last.ret[1], 1, Len(otherOrigin)) = otherOrigin

\* C19 (as stated): for every string u and every integer n, sanitizeUrlForDisplay(u, n)
\* is u when len(u) <= n, and otherwise has length at most n + 3.
C19_SanitizedLengthWithinBound ==
    last.op = "sanitizeUrlForDisplay" =>
        LET u == last.arg[1]
            n == last.arg[2]
            r == last.ret[1]
        IN  IF Len(u) <= n THEN r = u ELSE Len(r) <= n + 3

\* C19 (amended): sanitizeUrlForDisplay(u, n) is u when len(u) <= n, and applying it
\* again to that result gives the same string; otherwise, for n >= 0, it is the first
\* floor(n/2) characters of u, '...', and the last ceil(n/2) characters of u, of length
\* exactly n + 3; for n < 0 it is '...' alone, which is longer than n + 3.
C19_SanitizeKeepsBothEnds ==
    last.op = "sanitizeUrlForDisplay" =>
        LET u == last.arg[1]
            n == last.arg[2]
            r == last.ret[1]
        IN  IF Len(u) <= n THEN r = u /\ sanitizeUrlForDisplay(r, n) = r
            ELSE IF n >= 0
            THEN /\ r = SubSeq(u, 1, n \div 2) \o <<".", ".", ".">>
                          \o SubSeq(u, Len(u) - (n - (n \div 2)) + 1, Len(u))
                 /\ Len(r) = n + 3
            ELSE r = <<".", ".", ".">> /\ Len(r) > n + 3

\* a text of 8 characters cut to an odd maxLength of 5: two characters, the dots, three
\* characters
C19_Witness ==
    /\ last.op = "sanitizeUrlForDisplay"
    /\ last.arg = <<SubSeq(sampleUrl, 1, 8), 5>>
    /\ last.ret = Some(<<"h", "t", ".", ".", ".", "/", "/", "l">>)

\* C20: isValidWalletAddress and isValidWallet give the same boolean on every input, and
\* it is decided on the trimmed string in this order: if it starts with 0x, whether it
\* is 0x followed by 1 to 64 hex digits; else if it contains .apt, whether it is one or
\* more of A-Z a-z 0-9 _ - followed by .apt; else whether its length is 6 to 100.
\* '0xAB12' and 'alice.apt' are valid, '0xZZ' and 'ab' are not, and no string that
\* starts with 0x or contains .apt is accepted for its length.
C20_WalletValidatorsAgree ==
    last.op \in {"isValidWalletAddress", "isValidWallet"} =>
        LET s == trim(last.arg)
            valid == last.ret[1]
            hex == {"0", "1", "2", "3", "4", "5", "6", "7", "8", "9", "a", "b", "c", "d",
                    "e", "f", "A", "B", "C", "D", "E", "F"}
            HasPrefix == Len(s) >= 2 /\ s[1] = "0" /\ s[2] = "x"
            AptAt(i) == s[i] = "." /\ s[i + 1] = "a" /\ s[i + 2] = "p" /\ s[i + 3] = "t"
            HasApt == \E i \in 1..(Len(s) - 3) : AptAt(i)
            decided ==
                IF HasPrefix
                THEN Len(s) - 2 \in 1..64 /\ \A i \in 3..Len(s) : s[i] \in hex
                ELSE IF HasApt
                THEN /\ Len(s) >= 5 /\ AptAt(Len(s) - 3)
                     /\ \A i \in 1..(Len(s) - 4) : s[i] \in Letters \cup Digits \cup {"_", "-"}
                ELSE Len(s) \in 6..100
        IN  /\ valid = isValidWalletAddress(last.arg)
            /\ valid = isValidWallet(last.arg)
            /\ valid = decided
            /\ last.arg = <<"0", "x", "A", "B", "1", "2">> => valid
            /\ last.arg = <<"a", "l", "i", "c", "e", ".", "a", "p", "t">> => valid
            /\ last.arg = <<"0", "x", "Z", "Z">> => ~valid
            /\ last.arg = <<"a", "b">> => ~valid
            /\ (valid /\ (HasPrefix \/ HasApt)) =>
                   (\A i \in 1..Len(s) : s[i] \in hex \cup Letters \cup Digits \cup {"_", "-", "."})

\* a string of ten characters that starts with 0x and is not hex was refused
C20_Witness ==
    /\ last.op = "isValidWalletAddress"
    /\ last.arg = longMalformedHexWallet
    /\ last.ret = Some(FALSE)

\* C21: a copyToClipboard call never throws or rejects, whichever primitives fail or
\* throw: it returns a result object, and the method field of the result is the stage
\* the call reached.
C21_CopyAlwaysReturnsResult ==
    clip.pc = "done" =>
        /\ clip.settled = "returned"
        /\ clip.result # None
        /\ clip.result[1].method = clip.attempts[Len(clip.attempts)]

\* C22: the stages are attempted in the order clipboard-api (only with the clipboard API
\* in a secure context), execCommand, manual-select, fallback; a stage is attempted only
\* when every earlier one was skipped, failed or threw; nothing runs after a stage has
\* succeeded; the method returned is the first stage that succeeded.
C22_StagesInFixedOrder ==
    clip.pc # "idle" =>
        LET env == clip.env[1]
            a == clip.attempts
            skipped == IF env.clipboardApi THEN 0 ELSE 1
            Succeeds(stage) ==
                IF stage = "clipboard-api" THEN env.clipboardApi /\ env.writeText = "resolves"
                ELSE IF stage = "execCommand"
                THEN /\ env.body = "present" /\ env.select = "returns"
                     /\ env.execCommand = "present" /\ env.execTextArea = "true"
                ELSE IF stage = "manual-select"
                THEN /\ env.body = "present" /\ env.select = "returns"
                     /\ env.execCommand = "present" /\ env.execInput = "true"
                ELSE clip.result # None /\ clip.result[1].success
        IN  /\ \A i \in 1..Len(a) :
                   a[i] = <<"clipboard-api", "execCommand", "manual-select", "fallback">>[i + skipped]
            /\ \A i \in 1..(Len(a) - 1) : ~Succeeds(a[i])
            /\ clip.pc # "done" =>
                   /\ clip.result = None
                   /\ (a # <<>> => ~Succeeds(a[Len(a)]))
                   /\ clip.pc = <<"clipboard-api", "execCommand", "manual-select",
                                  "fallback">>[Len(a) + skipped + 1]
            /\ clip.pc = "done" =>
                   /\ a # <<>>
                   /\ a[Len(a)] # "fallback" => Succeeds(a[Len(a)])
                   /\ (clip.result # None /\ clip.result[1].success) =>
                          clip.result[1].method = a[Len(a)] /\ Succeeds(a[Len(a)])

\* the native write rejected, the text-area copy returned false, and the single-line
\* input copy succeeded: three stages attempted, the third one named
C22_Witness ==
    /\ clip.pc = "done"
    /\ clip.attempts = <<"clipboard-api", "execCommand", "manual-select">>
    /\ clip.env[1].execTextArea = "false"
    /\ clip.result = Some(ClipboardResult(TRUE, "manual-select", Undefined))

\* C23 (as stated): in the manual-fallback stage success is reported whenever the text
\* area with its alert, or the prompt, showed the text, and success = false is reported
\* only when no UI primitive at all was available to show the text.
C23_FailureOnlyWithoutAnyUi ==
    (clip.pc = "done" /\ clip.attempts # <<>>
        /\ clip.attempts[Len(clip.attempts)] = "fallback") =>
        /\ (clip.shown \cap {SelectedTextArea, PromptWithText} # {}) =>
               (clip.settled = "returned" /\ clip.result[1].success)
        /\ (clip.settled = "returned" /\ ~clip.result[1].success) =>
               (clip.env[1].alert # "returns" /\ clip.env[1].prompt # "returns")

\* C23 (amended): in the manual-fallback stage success is reported whenever the text
\* area with its alert, or the prompt, showed the text; success = false is reported
\* exactly when the text-area path threw, window.prompt is missing and alert works, and
\* the text has then been shown with alert.
C23_FailureAfterAlertOnly ==
    (clip.pc = "done" /\ clip.attempts # <<>>
        /\ clip.attempts[Len(clip.attempts)] = "fallback") =>
        /\ (clip.shown \cap {SelectedTextArea, PromptWithText} # {}) =>
               /\ clip.settled = "returned"
               /\ clip.result = Some(ClipboardResult(TRUE, "fallback", Undefined))
        /\ (clip.settled = "returned" /\ ~clip.result[1].success) <=>
               /\ clip.env[1].body = "null" \/ clip.env[1].select = "throws"
               /\ clip.env[1].prompt = "missing"
               /\ clip.env[1].alert = "returns"
        /\ (clip.settled = "returned" /\ ~clip.result[1].success) =>
               clip.shown = {AlertWithText}

\* without a document body and without window.prompt the text was shown with alert and
\* the call reported failure
C23_Witness ==
    /\ clip.pc = "done"
    /\ clip.env[1].body = "null" /\ clip.env[1].prompt = "missing"
    /\ clip.shown = {AlertWithText}
    /\ clip.result = Some(ClipboardResult(FALSE, Undefined, "All clipboard methods failed"))

\* C24: whenever a copyToClipboard call ends without a successful copy, by a result with
\* success = false or by any other failure, the user has been shown the text with a
\* manual-copy instruction before the call ends.
C24_FailureComesWithInstruction ==
    (clip.pc = "done" /\ ~(clip.settled = "returned" /\ clip.result[1].success)) =>
        clip.shown # {}

\* C29: when a copyToClipboard call has ended, by a result or otherwise, no text area or
\* input it attached to document.body is still attached.
C29_NoElementLeftAttached ==
    clip.pc = "done" => clip.attached = {}

\* C25: saveIssuedCredential stores and returns a record with status issued and an id
\* and issuedDate assigned by the call, submitCredentialRequest one with status pending
\* and an id and requestDate assigned by the call, whatever id, date or status the
\* caller's object carries; the id is that of no record already stored; the record is
\* appended last and every record already in the list stays as and where it was.
C25_NewRecordIsFreshAndLast ==
    [][ LET c == last'
        IN  /\ (c.op = "submitCredentialRequest" /\ c.err = "") =>
                  LET new == getCredentialRequests(localStorage')
                  IN  /\ new = Append(requests, c.ret[1])
                      /\ c.ret[1].status = "pending"
                      /\ c.ret[1].id = "req_" \o ToString(clock)
                      /\ c.ret[1].requestDate = clock
                      /\ \A i \in 1..Len(requests) : requests[i].id # c.ret[1].id
                      /\ \A f \in DOMAIN c.arg \ {"id", "requestDate", "status"} :
                             c.ret[1][f] = c.arg[f]
                      /\ localStorage'[ISSUED_CREDENTIALS_KEY]
                             = localStorage[ISSUED_CREDENTIALS_KEY]
            /\ (c.op = "saveIssuedCredential" /\ c.err = "") =>
                  LET new == getIssuedCredentials(localStorage')
                  IN  /\ new = Append(credentials, c.ret[1])
                      /\ c.ret[1].status = "issued"
                      /\ c.ret[1].id = "cred_" \o ToString(clock)
                      /\ c.ret[1].issuedDate = clock
                      /\ \A i \in 1..Len(credentials) : credentials[i].id # c.ret[1].id
                      /\ \A f \in DOMAIN c.arg \ {"id", "issuedDate", "status"} :
                             c.ret[1][f] = c.arg[f]
                      /\ localStorage'[CREDENTIAL_REQUESTS_KEY]
                             = localStorage[CREDENTIAL_REQUESTS_KEY]
      ]_vars

\* a request whose caller supplied an id and the status approved was stored second, as
\* pending and under an id of the call's own
C25_Witness ==
    /\ last.op = "submitCredentialRequest" /\ last.err = ""
    /\ "id" \in DOMAIN last.arg /\ last.arg.id = "req_mine" /\ last.arg.status = "approved"
    /\ Len(requests) = 2
    /\ requests[2] = last.ret[1]
    /\ requests[2].status = "pending" /\ requests[2].id # "req_mine"

\* C26: when two approveCredentialRequest calls for the same pending request run in two
\* tabs and their reads and writes of the store interleave, at most one of them
\* succeeds and at most one credential is stored for that request.
C26_OneApprovalPerRequest ==
    /\ \A t1 \in Tabs : \A t2 \in Tabs \ {t1} :
           ~ /\ tabs[t1].pc = "done" /\ tabs[t1].op = "approveCredentialRequest"
             /\ tabs[t2].pc = "done" /\ tabs[t2].op = "approveCredentialRequest"
             /\ tabs[t1].err = "" /\ tabs[t2].err = ""
             /\ tabs[t1].arg.requestId = tabs[t2].arg.requestId
    /\ \A k \in 1..Len(requests) :
           Cardinality({i \in 1..Len(credentials) :
                           /\ credentials[i].title = requests[k].credentialTitle
                           /\ credentials[i].studentWalletAddress
                                  = requests[k].studentWalletAddress}) <= 1

\* C27: when submits, approves and rejects of two tabs interleave at the level of
\* their list reads and list writes, nothing committed is lost: a request stored as
\* approved or rejected is never stored as pending again, and a stored request or
\* credential is in the list after every later write.
C27_NoCommittedChangeLost ==
    [][ LET newRequests == getCredentialRequests(localStorage')
            newCredentials == getIssuedCredentials(localStorage')
        IN  /\ \A i \in 1..Len(requests) :
                   \E j \in 1..Len(newRequests) :
                       /\ newRequests[j].id = requests[i].id
                       /\ requests[i].status # "pending" => newRequests[j].status # "pending"
            /\ \A i \in 1..Len(credentials) :
                   \E j \in 1..Len(newCredentials) : newCredentials[j].id = credentials[i].id
      ]_vars

\* C28: in the record generateQRVerificationData returns, data.walletAddress and
\* data.credentialId are the address and credentialId read from url; when
\* generateVerificationUrl fails for the inputs, generateQRVerificationData and
\* createShareableUrl fail with the same error and return nothing.
C28_QrDataMatchesUrl ==
    last.op \in {"generateQRVerificationData", "createShareableUrl"} =>
        LET made == generateVerificationUrl(last.arg[2], last.arg[1].id, None, windowOrigin)
        IN  /\ last.err = made.err
            /\ made.err # "" => last.ret = None
            /\ (last.op = "generateQRVerificationData" /\ last.err = "") =>
                   /\ parseUrlParams(last.ret[1].url).address
                          = Some(last.ret[1].data.walletAddress)
                   /\ parseUrlParams(last.ret[1].url).credentialId
                          = Some(last.ret[1].data.credentialId)

\* C30: sanitizeUrlForDisplay never returns a string longer than its input: for every
\* string u and every maxLength n >= 0 the result has at most len(u) characters.
C30_SanitizeNeverLengthens ==
    (last.op = "sanitizeUrlForDisplay" /\ last.arg[2] >= 0) =>
        Len(last.ret[1]) <= Len(last.arg[1])

====
